---- MODULE Spec2Model ----
(***************************************************************************)
(* nlbn: EasyEDA/LCSC to KiCad converter.                                  *)
(*                                                                         *)
(* State machine of `run` (src/src/main.rs): the parallel and sequential   *)
(* batch loops, the per-component pipeline `process_component`, the shared *)
(* statistics, the shared symbol library, and the removal mode.            *)
(***************************************************************************)
EXTENDS Integers, Sequences, FiniteSets, TLC

\* ------------------------------------------------------------------ bounds
MaxN == 3          \* most identifiers read from one batch file
MaxP == 2          \* largest value given to --parallel
MaxEntries == 2    \* most entries of a symbol library scanned alone
LiveN == 3         \* most identifiers of a batch whose termination is checked
LiveP == 2         \* largest --parallel of a batch whose termination is checked

\* ------------------------------------------------------------- identifiers
\* Text is a sequence of one-character strings, so that `contains` and
\* `sanitize_name` are computed character by character.
C1 == <<"C", "1">>
C12 == <<"C", "1", "2">>
C2 == <<"C", "2">>

\* The k-th identifier found in the batch file (Regex C\d+ over the file
\* content; the same identifier may occur more than once).
IdAt(k) == CASE k % 4 = 1 -> C1
             [] k % 4 = 2 -> C12
             [] k % 4 = 3 -> C1
             [] OTHER     -> C2

BatchFile(n) == [k \in 1..n |-> IdAt(k)]

\* What the remote source answers for an identifier: the title and whether
\* the package carries an outline3D SVGNODE with uuid and title.
RemoteTitle(id) == IF id = C2 THEN <<"U", "-", "2">> ELSE <<"R", " ", "1">>
RemoteModel3d(id) == id = C12
RemoteModelTitle(id) == <<"M", ".", "1">>

AlphaNumeric == {"C", "R", "U", "0", "1", "2"}

\* sanitize_name: every char that is not alphanumeric, '_' or '-' becomes '_'.
sanitize_name(name) ==
    [k \in 1..Len(name) |->
        IF name[k] \in AlphaNumeric \/ name[k] = "_" \/ name[k] = "-"
        THEN name[k] ELSE "_"]

\* format!("{}_{}", sanitize_name(&title), lcsc_id)
ComponentName(title, id) == sanitize_name(title) \o <<"_">> \o id

\* ----------------------------------------------------------------- state
VARIABLES
    args,           \* Cli: parallel, continue_on_error, overwrite, selection flags
    lcsc_ids,       \* identifiers to process, in input order
    mainPc,         \* position of `run`
    seqIndex,       \* next index of the spawn loop / the sequential loop
    taskPc,         \* position of each conversion (spawned task or loop body)
    taskRes,        \* what process_component returned for each conversion
                    \* (the error value until it is dropped, then "Err")
    permits,        \* free permits of the semaphore
    success_count,  \* AtomicUsize
    failed_count,   \* AtomicUsize
    failed_ids,     \* Mutex<Vec<String>>
    libLock,        \* holder of the symbol library lock, 0 when free
    lib,            \* lines of the shared symbol library file
    fpFiles,        \* footprint files: set of [name, model]
    meshFiles,      \* mesh files: set of [name, ext]
    meshWarn,       \* log::warn! lines of the mesh stage: set of [task, ext, cause]
    runResult,      \* what `run` returned: "none" while running
    summary,        \* what `run` printed at its end
    rmPc,           \* position of handle_remove, "off" outside remove mode
    rmId,           \* the identifier given to --remove
    rmNew,          \* new_lines still to be written back to the library
    rmLocal,        \* `count` of the removal function that is running
    rmCount,        \* removed_count
    rmErrors,       \* errors collected by handle_remove
    libBefore,      \* content of the library when `run` started
    dirBefore,      \* footprint and mesh files present when `run` started
    storeCall,      \* the last add_or_update call made on the library alone
    conv            \* a geometry conversion taken alone: its input and output

vars == <<args, lcsc_ids, mainPc, seqIndex, taskPc, taskRes, permits,
          success_count, failed_count, failed_ids, libLock, lib, fpFiles,
          meshFiles, meshWarn, runResult, summary, rmPc, rmId, rmNew, rmLocal,
          rmCount, rmErrors, libBefore, dirBefore, storeCall, conv>>

rmVars == <<rmPc, rmId, rmNew, rmLocal, rmCount, rmErrors, libBefore,
           dirBefore, storeCall>>

total_count == Len(lcsc_ids)
is_batch == total_count > 1
Parallel == is_batch /\ args.parallel > 1
Tasks == 1..total_count

doSymbol == args.symbol \/ args.full
doFootprint == args.footprint \/ args.full
doModel == args.model_3d \/ args.full

\* ------------------------------------------------------- symbol library
\* One line of the library file: whether its trimmed text starts with
\* "(symbol", the text in which a name can occur, its counts of '(' and ')',
\* and its line terminator.
LibLine(sym, text, lp, rp) ==
    [sym |-> sym, text |-> text, lp |-> lp, rp |-> rp, eol |-> "LF"]

HeaderLine == LibLine(FALSE, <<"h">>, 1, 0)
FooterLine == LibLine(FALSE, <<>>, 0, 1)

\* The exported text of one symbol entry: opening line with the name, a body
\* line carrying the payload, the closing line.
SymbolEntry(name, payload) ==
    << LibLine(TRUE, name, 1, 0),
       LibLine(FALSE, <<payload>>, 1, 1),
       LibLine(FALSE, <<>>, 0, 1) >>

EmptyLib == <<HeaderLine, FooterLine>>

\* Index of the opening line of the entry keyed `key`, 0 when absent.
KeyIndex(content, key) ==
    LET hits == {k \in 1..Len(content) : content[k].sym /\ content[k].text = key}
    IN IF hits = {} THEN 0 ELSE CHOOSE k \in hits : \A h \in hits : k <= h

RECURSIVE SpanEnd(_, _, _)
\* Last line of the span opened at line k, `depth` being the nesting depth
\* before line k.
SpanEnd(content, k, depth) ==
    IF k > Len(content) THEN Len(content)
    ELSE LET d == depth + content[k].lp - content[k].rp
         IN IF d <= 0 THEN k ELSE SpanEnd(content, k + 1, d)

\* The content after add_or_update inserted or replaced the entry of `key`.
PutEntry(content, key, payload) ==
    LET k == KeyIndex(content, key)
    IN IF k = 0
       THEN SubSeq(content, 1, Len(content) - 1) \o SymbolEntry(key, payload)
                \o <<content[Len(content)]>>
       ELSE SubSeq(content, 1, k - 1) \o SymbolEntry(key, payload)
                \o SubSeq(content, SpanEnd(content, k, 0) + 1, Len(content))

\* ------------------------------------------------------------------ Init
NoCall ==
    [key |-> <<>>, payload |-> "", overwrite |-> FALSE, result |-> "none",
     before |-> <<>>]

NoConversion ==
    [kind |-> "none", bbox |-> <<0, 0>>, input |-> <<>>, output |-> <<>>,
     done |-> FALSE]

NoSummary ==
    [kind |-> "none", total |-> 0, success |-> 0, failed |-> 0, failed_list |-> <<>>]

Selection(s, f, m, a) == [symbol |-> s, footprint |-> f, model_3d |-> m, full |-> a]

Selections ==
    { Selection(FALSE, FALSE, FALSE, FALSE),
      Selection(FALSE, TRUE, FALSE, FALSE),
      Selection(FALSE, FALSE, FALSE, TRUE) }

ArgSet ==
    { [parallel |-> p, continue_on_error |-> c, overwrite |-> o,
       symbol |-> s.symbol, footprint |-> s.footprint,
       model_3d |-> s.model_3d, full |-> s.full] :
         p \in 1..MaxP, c \in BOOLEAN, o \in BOOLEAN, s \in Selections }

Init ==
    /\ args \in ArgSet
    /\ lcsc_ids \in {BatchFile(n) : n \in 1..MaxN}
    /\ mainPc = "start"
    /\ seqIndex = 1
    /\ taskPc = [i \in 1..Len(lcsc_ids) |-> "unspawned"]
    /\ taskRes = [i \in 1..Len(lcsc_ids) |-> "none"]
    /\ permits = 0
    /\ success_count = 0
    /\ failed_count = 0
    /\ failed_ids = <<>>
    /\ libLock = 0
    /\ lib = EmptyLib
    /\ fpFiles = {}
    /\ meshFiles = {}
    /\ meshWarn = {}
    /\ runResult = "none"
    /\ summary = NoSummary
    /\ rmPc = "off"
    /\ rmId = <<>>
    /\ rmNew = <<>>
    /\ rmLocal = 0
    /\ rmCount = 0
    /\ rmErrors = <<>>
    /\ libBefore = lib
    /\ dirBefore = [footprints |-> fpFiles, meshes |-> meshFiles]
    /\ storeCall = NoCall
    /\ conv = NoConversion

\* ------------------------------------------------- process_component
IdOf(i) == lcsc_ids[i]
\* The names of the identifiers a batch file can hold, computed once.
Ids == {IdAt(k) : k \in 1..4}
Names == [id \in Ids |-> ComponentName(RemoteTitle(id), id)]
ModelNames == [id \in Ids |-> ComponentName(RemoteModelTitle(id), id)]
NameOf(i) == Names[IdOf(i)]
ModelNameOf(i) == ModelNames[IdOf(i)]

IsErr(r) == r \notin {"none", "Ok"}

\* The stage that follows a stage that succeeded; "returned" is Ok(()).
StageAfterFootprint(i) ==
    IF doModel /\ RemoteModel3d(IdOf(i)) THEN "model_obj" ELSE "returned"
StageAfterSymbol(i) == IF doFootprint THEN "footprint" ELSE StageAfterFootprint(i)
StageAfterFetch(i) == IF doSymbol THEN "symbol" ELSE StageAfterSymbol(i)

Goto(i, stage) ==
    /\ taskPc' = [taskPc EXCEPT ![i] = stage]
    /\ taskRes' = [taskRes EXCEPT ![i] = IF stage = "returned" THEN "Ok" ELSE @]

Fail(i, err) ==
    /\ taskPc' = [taskPc EXCEPT ![i] = "returned"]
    /\ taskRes' = [taskRes EXCEPT ![i] = err]

\* A fetch whose failure does not end the conversion.
FetchContinuing(i) ==
    /\ taskPc[i] = "fetch"
    /\ \/ Goto(i, StageAfterFetch(i))
       \/ /\ taskPc' = [taskPc EXCEPT ![i] = StageAfterFetch(i)]
          /\ taskRes' = [taskRes EXCEPT ![i] = "ErrFetch"]
    /\ UNCHANGED <<args, lcsc_ids, mainPc, seqIndex, permits, success_count,
                   failed_count, failed_ids, libLock, lib, fpFiles, meshFiles,
                   runResult, summary, rmVars, meshWarn, conv>>

\* api.get_component_data(lcsc_id).await?
Fetch(i) ==
    /\ taskPc[i] = "fetch"
    /\ \/ Goto(i, StageAfterFetch(i))
       \/ Fail(i, "ErrFetch")
    /\ UNCHANGED <<args, lcsc_ids, mainPc, seqIndex, permits, success_count,
                   failed_count, failed_ids, libLock, lib, fpFiles, meshFiles,
                   runResult, summary,
                   rmVars, meshWarn, conv>>

\* SymbolImporter::parse(..)?, the build of ki_symbol, exporter.export(..)?
Symbol(i) ==
    /\ taskPc[i] = "symbol"
    /\ \/ Goto(i, "lib_lock")
       \/ Fail(i, "ErrSymbol")
    /\ UNCHANGED <<args, lcsc_ids, mainPc, seqIndex, permits, success_count,
                   failed_count, failed_ids, libLock, lib, fpFiles, meshFiles,
                   runResult, summary,
                   rmVars, meshWarn, conv>>

\* Entering the critical section without waiting for the lock.
LibLockNoWait(i) ==
    /\ taskPc[i] = "lib_lock"
    /\ libLock' = i
    /\ taskPc' = [taskPc EXCEPT ![i] = "lib_write"]
    /\ UNCHANGED <<args, lcsc_ids, mainPc, seqIndex, taskRes, permits,
                   success_count, failed_count, failed_ids, lib, fpFiles,
                   meshFiles, runResult, summary, rmVars, meshWarn, conv>>

\* add_or_update_component: enter the single-writer critical section.
LibLock(i) ==
    /\ taskPc[i] = "lib_lock"
    /\ libLock = 0
    /\ libLock' = i
    /\ taskPc' = [taskPc EXCEPT ![i] = "lib_write"]
    /\ UNCHANGED <<args, lcsc_ids, mainPc, seqIndex, taskRes, permits,
                   success_count, failed_count, failed_ids, lib, fpFiles,
                   meshFiles, runResult, summary,
                   rmVars, meshWarn, conv>>

\* add_or_update_component always writing, whatever `overwrite`.
AddOrUpdateAlways(content, key, payload, overwrite) ==
    [content |-> PutEntry(content, key, payload), result |-> "Ok"]

\* add_or_update_component: what the call does to the container and what it
\* returns ("Ok" or "ErrDuplicate").
AddOrUpdate(content, key, payload, overwrite) ==
    IF KeyIndex(content, key) # 0 /\ ~overwrite
    THEN [content |-> content, result |-> "ErrDuplicate"]
    ELSE [content |-> PutEntry(content, key, payload), result |-> "Ok"]

\* A persist that leaves the critical section locked.
LibWriteKeepingLock(i) ==
    /\ taskPc[i] = "lib_write"
    /\ LET r == AddOrUpdate(lib, NameOf(i), "n", args.overwrite)
       IN /\ lib' = r.content
          /\ IF r.result = "Ok"
             THEN Goto(i, StageAfterSymbol(i))
             ELSE Fail(i, r.result)
    /\ UNCHANGED <<args, lcsc_ids, mainPc, seqIndex, permits, success_count,
                   failed_count, failed_ids, libLock, fpFiles, meshFiles,
                   runResult, summary, rmVars, meshWarn, conv>>

LibWrite(i) ==
    /\ taskPc[i] = "lib_write"
    /\ LET r == AddOrUpdate(lib, NameOf(i), "n", args.overwrite)
       IN /\ lib' = r.content
          /\ IF r.result = "Ok"
             THEN Goto(i, StageAfterSymbol(i))
             ELSE Fail(i, r.result)
    /\ libLock' = 0
    /\ UNCHANGED <<args, lcsc_ids, mainPc, seqIndex, permits, success_count,
                   failed_count, failed_ids, fpFiles, meshFiles, runResult,
                   summary,
                   rmVars, meshWarn, conv>>

\* The footprint file of a component: its name and the 3D model it refers to.
FootprintFile(i) ==
    [name |-> NameOf(i),
     model |-> IF RemoteModel3d(IdOf(i)) /\ doModel
               THEN ModelNameOf(i) ELSE <<>>]

\* FootprintImporter::parse(..)?, the build of ki_footprint (with the 3D
\* model reference), exporter.export(..)?, lib_manager.write_footprint(..)?
\* A malformed answer of the remote source is rejected by the first importer
\* that parses it: the step fails only when the symbol step did not run.
Footprint(i) ==
    /\ taskPc[i] = "footprint"
    /\ \/ /\ fpFiles' = {f \in fpFiles : f.name # NameOf(i)} \cup {FootprintFile(i)}
          /\ Goto(i, StageAfterFootprint(i))
       \/ /\ ~doSymbol
          /\ Fail(i, "ErrFootprint")
          /\ UNCHANGED fpFiles
    /\ UNCHANGED <<args, lcsc_ids, mainPc, seqIndex, permits, success_count,
                   failed_count, failed_ids, libLock, lib, meshFiles,
                   runResult, summary,
                   rmVars, meshWarn, conv>>

\* download_with_retry: the attempts are made in order; the first one that
\* succeeds returns the bytes, the MAX_RETRIES-th failure returns the error.
MAX_RETRIES == 3
AttemptResults == {"ok", "fail"}
AttemptRuns == [1..MAX_RETRIES -> AttemptResults]

RECURSIVE download_with_retry(_, _)
download_with_retry(outcomes, attempt) ==
    IF outcomes[attempt] = "ok" THEN "Ok"
    ELSE IF attempt = MAX_RETRIES THEN "Err"
    ELSE download_with_retry(outcomes, attempt + 1)

\* The line logged when one encoding of the mesh is not written.
MeshWarning(i, ext, download) ==
    [task |-> i, ext |-> ext,
     cause |-> IF download = "Err" THEN "download" ELSE "local"]

\* What download_with_retry can return.
Downloads == {download_with_retry(outcomes, 1) : outcomes \in AttemptRuns}

\* One encoding of the mesh: the download, then, on the bytes it returned,
\* the conversion and the write (`local`); the file is written when all
\* succeed, otherwise the failure is logged and nothing else happens.
MeshEncoding(i, ext) ==
    \E download \in Downloads :
        \E local \in IF download = "Ok" THEN BOOLEAN ELSE {FALSE} :
            IF local
            THEN /\ meshFiles' = meshFiles \cup {[name |-> ModelNameOf(i), ext |-> ext]}
                 /\ UNCHANGED meshWarn
            ELSE /\ meshWarn' = meshWarn \cup {MeshWarning(i, ext, download)}
                 /\ UNCHANGED meshFiles

\* The mesh stage giving up at the first encoding that fails.
ModelObjBlocking(i) ==
    /\ taskPc[i] = "model_obj"
    /\ MeshEncoding(i, "wrl")
    /\ IF meshWarn' # meshWarn THEN Goto(i, "returned")
       ELSE /\ taskPc' = [taskPc EXCEPT ![i] = "model_step"]
            /\ UNCHANGED taskRes
    /\ UNCHANGED <<args, lcsc_ids, mainPc, seqIndex, permits,
                   success_count, failed_count, failed_ids, libLock, lib,
                   fpFiles, runResult, summary, rmVars, conv>>

\* download_3d_obj, obj_to_wrl, write_wrl_model: any failure is only logged.
ModelObj(i) ==
    /\ taskPc[i] = "model_obj"
    /\ MeshEncoding(i, "wrl")
    /\ taskPc' = [taskPc EXCEPT ![i] = "model_step"]
    /\ UNCHANGED <<args, lcsc_ids, mainPc, seqIndex, taskRes, permits,
                   success_count, failed_count, failed_ids, libLock, lib,
                   fpFiles, runResult, summary,
                   rmVars, conv>>

\* download_3d_step, export_step, write_step_model: any failure is only logged.
ModelStep(i) ==
    /\ taskPc[i] = "model_step"
    /\ MeshEncoding(i, "step")
    /\ Goto(i, "returned")
    /\ UNCHANGED <<args, lcsc_ids, mainPc, seqIndex, permits, success_count,
                   failed_count, failed_ids, libLock, lib, fpFiles, runResult,
                   summary,
                   rmVars, conv>>

\* ------------------------------------------------------------------ run
\* args.validate(): at least one conversion option must be selected.
Valid == args.symbol \/ args.footprint \/ args.model_3d \/ args.full

\* Semaphore::new(args.parallel)
SemaphoreNew == args.parallel

\* run, up to the choice of the processing mode: validate()?,
\* get_lcsc_ids()?, create_directories()?, the statistics, the semaphore.
Start ==
    /\ mainPc = "start"
    /\ \/ /\ ~Valid
          /\ runResult' = "ErrInput"
          /\ mainPc' = "done"
          /\ UNCHANGED permits
       \/ /\ Valid
          /\ runResult' = "ErrIo"
          /\ mainPc' = "done"
          /\ UNCHANGED permits
       \/ /\ Valid
          /\ Parallel
          /\ permits' = SemaphoreNew
          /\ mainPc' = "spawn"
          /\ UNCHANGED runResult
       \/ /\ Valid
          /\ ~Parallel
          /\ mainPc' = "seq"
          /\ UNCHANGED <<runResult, permits>>
    /\ UNCHANGED <<args, lcsc_ids, seqIndex, taskPc, taskRes, success_count,
                   failed_count, failed_ids, libLock, lib, fpFiles, meshFiles,
                   summary,
                   rmVars, meshWarn, conv>>

\* join_set.spawn(..) for the next identifier; after the last one `run`
\* goes on to join_next().
Spawn ==
    /\ mainPc = "spawn"
    /\ taskPc' = [taskPc EXCEPT ![seqIndex] = "acquire"]
    /\ seqIndex' = seqIndex + 1
    /\ mainPc' = IF seqIndex = total_count THEN "join" ELSE "spawn"
    /\ UNCHANGED <<args, lcsc_ids, taskRes, permits, success_count,
                   failed_count, failed_ids, libLock, lib, fpFiles, meshFiles,
                   runResult, summary,
                   rmVars, meshWarn, conv>>

\* Acquire that does not wait for a free permit.
AcquireNoWait(i) ==
    /\ taskPc[i] = "acquire"
    /\ permits' = permits - 1
    /\ taskPc' = [taskPc EXCEPT ![i] = "fetch"]
    /\ UNCHANGED <<args, lcsc_ids, mainPc, seqIndex, taskRes, success_count,
                   failed_count, failed_ids, libLock, lib, fpFiles, meshFiles,
                   runResult, summary, rmVars, meshWarn, conv>>

\* let _permit = sem.acquire().await
Acquire(i) ==
    /\ taskPc[i] = "acquire"
    /\ permits > 0
    /\ permits' = permits - 1
    /\ taskPc' = [taskPc EXCEPT ![i] = "fetch"]
    /\ UNCHANGED <<args, lcsc_ids, mainPc, seqIndex, taskRes, success_count,
                   failed_count, failed_ids, libLock, lib, fpFiles, meshFiles,
                   runResult, summary,
                   rmVars, meshWarn, conv>>

\* The sequential loop takes the next identifier.
SeqNext ==
    /\ mainPc = "seq"
    /\ seqIndex <= total_count
    /\ taskPc[seqIndex] = "unspawned"
    /\ taskPc' = [taskPc EXCEPT ![seqIndex] = "fetch"]
    /\ UNCHANGED <<args, lcsc_ids, mainPc, seqIndex, taskRes, permits,
                   success_count, failed_count, failed_ids, libLock, lib,
                   fpFiles, meshFiles, runResult, summary,
                   rmVars, meshWarn, conv>>

\* The sequential loop is over.
SeqEnd ==
    /\ mainPc = "seq"
    /\ seqIndex > total_count
    /\ mainPc' = "report"
    /\ UNCHANGED <<args, lcsc_ids, seqIndex, taskPc, taskRes, permits,
                   success_count, failed_count, failed_ids, libLock, lib,
                   fpFiles, meshFiles, runResult, summary,
                   rmVars, meshWarn, conv>>

\* A success recorded by a load followed by a store: the increment of a
\* task that recorded in between is lost.
RecordOkLost(i) ==
    /\ taskPc[i] = "returned"
    /\ taskRes[i] = "Ok"
    /\ success_count' = IF success_count = 0 THEN 1 ELSE success_count
    /\ taskPc' = [taskPc EXCEPT ![i] = IF Parallel THEN "release" ELSE "finished"]
    /\ seqIndex' = IF Parallel THEN seqIndex ELSE seqIndex + 1
    /\ UNCHANGED <<args, lcsc_ids, mainPc, taskRes, permits, failed_count,
                   failed_ids, libLock, lib, fpFiles, meshFiles, runResult,
                   summary, rmVars, meshWarn, conv>>

\* Ok(_) => success_count.fetch_add(1)
RecordOk(i) ==
    /\ taskPc[i] = "returned"
    /\ taskRes[i] = "Ok"
    /\ success_count' = success_count + 1
    /\ taskPc' = [taskPc EXCEPT ![i] = IF Parallel THEN "release" ELSE "finished"]
    /\ seqIndex' = IF Parallel THEN seqIndex ELSE seqIndex + 1
    /\ UNCHANGED <<args, lcsc_ids, mainPc, taskRes, permits, failed_count,
                   failed_ids, libLock, lib, fpFiles, meshFiles, runResult,
                   summary,
                   rmVars, meshWarn, conv>>

\* A failure recorded by a task that gives its permit back at once.
RecordErrReleasing(i) ==
    /\ taskPc[i] = "returned"
    /\ IsErr(taskRes[i])
    /\ failed_count' = failed_count + 1
    /\ permits' = IF Parallel THEN permits + 1 ELSE permits
    /\ taskPc' = [taskPc EXCEPT ![i] = "push_failed"]
    /\ UNCHANGED <<args, lcsc_ids, mainPc, seqIndex, taskRes,
                   success_count, failed_ids, libLock, lib, fpFiles, meshFiles,
                   runResult, summary, rmVars, meshWarn, conv>>

\* Err(e) => failed_count.fetch_add(1)
RecordErr(i) ==
    /\ taskPc[i] = "returned"
    /\ IsErr(taskRes[i])
    /\ failed_count' = failed_count + 1
    /\ taskPc' = [taskPc EXCEPT ![i] = "push_failed"]
    /\ UNCHANGED <<args, lcsc_ids, mainPc, seqIndex, taskRes, permits,
                   success_count, failed_ids, libLock, lib, fpFiles, meshFiles,
                   runResult, summary,
                   rmVars, meshWarn, conv>>

\* Never returning early, and returning early in the parallel mode too.
AbortsNever == FALSE
AbortsInEveryMode == ~args.continue_on_error

\* Whether a failure makes `run` return the error at once.
AbortsOnError == ~Parallel /\ ~args.continue_on_error

\* The failure is counted but the identifier is not pushed by a task that
\* finds the list already holding an entry.
PushFailedOnce(i) ==
    /\ taskPc[i] = "push_failed"
    /\ failed_ids' = IF failed_ids = <<>> THEN <<lcsc_ids[i]>> ELSE failed_ids
    /\ taskPc' = [taskPc EXCEPT ![i] = IF Parallel THEN "release" ELSE "finished"]
    /\ IF ~Parallel /\ ~args.continue_on_error
       THEN /\ runResult' = taskRes[i]
            /\ mainPc' = "done"
            /\ UNCHANGED seqIndex
       ELSE /\ seqIndex' = IF Parallel THEN seqIndex ELSE seqIndex + 1
            /\ UNCHANGED <<runResult, mainPc>>
    /\ taskRes' = [taskRes EXCEPT ![i] =
                      IF ~Parallel /\ ~args.continue_on_error THEN @ ELSE "Err"]
    /\ UNCHANGED <<args, lcsc_ids, permits, success_count, failed_count,
                   libLock, lib, fpFiles, meshFiles, summary, rmVars, meshWarn, conv>>

\* failed_ids.lock().await.push(lcsc_id); then the error is printed and
\* dropped or, in the sequential loop without continue_on_error, returned.
PushFailed(i) ==
    /\ taskPc[i] = "push_failed"
    /\ failed_ids' = Append(failed_ids, IdOf(i))
    /\ taskPc' = [taskPc EXCEPT ![i] = IF Parallel THEN "release" ELSE "finished"]
    /\ IF AbortsOnError
       THEN /\ runResult' = taskRes[i]
            /\ mainPc' = "done"
            /\ UNCHANGED seqIndex
       ELSE /\ seqIndex' = IF Parallel THEN seqIndex ELSE seqIndex + 1
            /\ UNCHANGED <<runResult, mainPc>>
    /\ taskRes' = [taskRes EXCEPT ![i] = IF AbortsOnError THEN @ ELSE "Err"]
    /\ UNCHANGED <<args, lcsc_ids, permits, success_count, failed_count,
                   libLock, lib, fpFiles, meshFiles, summary,
                   rmVars, meshWarn, conv>>

\* A permit that is not given back when the future ends.
ReleaseKeeping(i) ==
    /\ taskPc[i] = "release"
    /\ taskPc' = [taskPc EXCEPT ![i] = "finished"]
    /\ UNCHANGED <<args, lcsc_ids, mainPc, seqIndex, taskRes, permits,
                   success_count, failed_count, failed_ids, libLock, lib,
                   fpFiles, meshFiles, runResult, summary, rmVars, meshWarn, conv>>

\* The task's future ends: _permit is dropped.
Release(i) ==
    /\ taskPc[i] = "release"
    /\ permits' = permits + 1
    /\ taskPc' = [taskPc EXCEPT ![i] = "finished"]
    /\ UNCHANGED <<args, lcsc_ids, mainPc, seqIndex, taskRes, success_count,
                   failed_count, failed_ids, libLock, lib, fpFiles, meshFiles,
                   runResult, summary,
                   rmVars, meshWarn, conv>>

\* while let Some(result) = join_set.join_next().await: the loop ends when
\* every spawned task has finished.
JoinAll ==
    /\ mainPc = "join"
    /\ \A i \in Tasks : taskPc[i] = "finished"
    /\ mainPc' = "report"
    /\ UNCHANGED <<args, lcsc_ids, seqIndex, taskPc, taskRes, permits,
                   success_count, failed_count, failed_ids, libLock, lib,
                   fpFiles, meshFiles, runResult, summary,
                   rmVars, meshWarn, conv>>

\* The completion message of a single conversion printed for a batch too.
ReportSummarySingle ==
    [kind |-> "single", total |-> 0, success |-> 0, failed |-> 0,
     failed_list |-> <<>>]

\* What `run` prints at its end.
ReportSummary ==
    IF is_batch
    THEN [kind |-> "batch", total |-> total_count, success |-> success_count,
          failed |-> failed_count, failed_list |-> failed_ids]
    ELSE [kind |-> "single", total |-> 0, success |-> 0, failed |-> 0,
          failed_list |-> <<>>]

\* The statistics are loaded, the summary is printed, Ok(()) is returned.
Report ==
    /\ mainPc = "report"
    /\ summary' = ReportSummary
    /\ runResult' = "Ok"
    /\ mainPc' = "done"
    /\ UNCHANGED <<args, lcsc_ids, seqIndex, taskPc, taskRes, permits,
                   success_count, failed_count, failed_ids, libLock, lib,
                   fpFiles, meshFiles,
                   rmVars, meshWarn, conv>>

Next ==
    \/ Start
    \/ Spawn
    \/ SeqNext
    \/ SeqEnd
    \/ JoinAll
    \/ Report
    \/ \E i \in Tasks : Acquire(i)
    \/ \E i \in Tasks : Fetch(i)
    \/ \E i \in Tasks : Symbol(i)
    \/ \E i \in Tasks : LibLock(i)
    \/ \E i \in Tasks : LibWrite(i)
    \/ \E i \in Tasks : Footprint(i)
    \/ \E i \in Tasks : ModelObj(i)
    \/ \E i \in Tasks : ModelStep(i)
    \/ \E i \in Tasks : RecordOk(i)
    \/ \E i \in Tasks : RecordErr(i)
    \/ \E i \in Tasks : PushFailed(i)
    \/ \E i \in Tasks : Release(i)

Spec == Init /\ [][Next]_vars

\* ------------------------------------------- the parallel batch to its end
\* A batch run in the parallel mode: --parallel > 1, more than one identifier,
\* with --symbol (the conversions meet at the library lock), --footprint or
\* --3d.
InitLive ==
    /\ \E p \in 2..LiveP, s \in {Selection(TRUE, FALSE, FALSE, FALSE),
                                 Selection(FALSE, TRUE, FALSE, FALSE),
                                 Selection(FALSE, FALSE, TRUE, FALSE)} :
          args = [parallel |-> p, continue_on_error |-> FALSE, overwrite |-> FALSE,
                  symbol |-> s.symbol, footprint |-> s.footprint,
                  model_3d |-> s.model_3d, full |-> s.full]
    /\ lcsc_ids \in {BatchFile(n) : n \in 2..LiveN}
    /\ mainPc = "start"
    /\ seqIndex = 1
    /\ taskPc = [i \in 1..Len(lcsc_ids) |-> "unspawned"]
    /\ taskRes = [i \in 1..Len(lcsc_ids) |-> "none"]
    /\ permits = 0
    /\ success_count = 0
    /\ failed_count = 0
    /\ failed_ids = <<>>
    /\ libLock = 0
    /\ lib = EmptyLib
    /\ fpFiles = {}
    /\ meshFiles = {}
    /\ meshWarn = {}
    /\ runResult = "none"
    /\ summary = NoSummary
    /\ rmPc = "off"
    /\ rmId = <<>>
    /\ rmNew = <<>>
    /\ rmLocal = 0
    /\ rmCount = 0
    /\ rmErrors = <<>>
    /\ libBefore = lib
    /\ dirBefore = [footprints |-> fpFiles, meshes |-> meshFiles]
    /\ storeCall = NoCall
    /\ conv = NoConversion

\* The steps of `run` in the parallel mode.
NextParallel ==
    \/ Start
    \/ Spawn
    \/ JoinAll
    \/ Report
    \/ \E i \in Tasks : Acquire(i)
    \/ \E i \in Tasks : Fetch(i)
    \/ \E i \in Tasks : Symbol(i)
    \/ \E i \in Tasks : LibLock(i)
    \/ \E i \in Tasks : LibWrite(i)
    \/ \E i \in Tasks : Footprint(i)
    \/ \E i \in Tasks : ModelObj(i)
    \/ \E i \in Tasks : ModelStep(i)
    \/ \E i \in Tasks : RecordOk(i)
    \/ \E i \in Tasks : RecordErr(i)
    \/ \E i \in Tasks : PushFailed(i)
    \/ \E i \in Tasks : Release(i)

\* The runtime keeps polling the tasks that can make progress, and every
\* conversion that has started goes on to its return.
SpecLive == InitLive /\ [][NextParallel]_vars /\ WF_vars(NextParallel)

\* api.get_component_data(..).await never completes (the client sets no
\* request timeout): the task stays where it is, holding its permit.
Stall(i) ==
    /\ taskPc[i] = "fetch"
    /\ taskPc' = [taskPc EXCEPT ![i] = "stalled"]
    /\ UNCHANGED <<args, lcsc_ids, mainPc, seqIndex, taskRes, permits,
                   success_count, failed_count, failed_ids, libLock, lib,
                   fpFiles, meshFiles, runResult, summary, rmVars, meshWarn, conv>>

NextStall ==
    \/ NextParallel
    \/ \E i \in Tasks : Stall(i)

\* Every task that is not stalled keeps being polled.
SpecStall == InitLive /\ [][NextStall]_vars /\ WF_vars(NextParallel)

\* ---------------------------------------------------------- remove mode
\* str::contains
Contains(text, sub) ==
    \E k \in 1..(Len(text) - Len(sub) + 1) :
        SubSeq(text, k, k + Len(sub) - 1) = sub

RECURSIVE ScanLines(_, _, _, _, _, _, _)
\* The loop of remove_component_from_symbol_lib over content.lines(), from
\* line k on: new_lines and found at its end.
ScanLines(lines, lcsc_id, k, in_target_symbol, paren_depth, found, new_lines) ==
    IF k > Len(lines)
    THEN [new_lines |-> new_lines, found |-> found]
    ELSE IF lines[k].sym /\ Contains(lines[k].text, lcsc_id)
    THEN ScanLines(lines, lcsc_id, k + 1, TRUE, 1, TRUE, new_lines)
    ELSE IF in_target_symbol
    THEN LET d == paren_depth + lines[k].lp - lines[k].rp
         IN ScanLines(lines, lcsc_id, k + 1, d # 0, d, found, new_lines)
    ELSE ScanLines(lines, lcsc_id, k + 1, FALSE, paren_depth, found,
                   Append(new_lines, lines[k]))

RemoveScan(content, lcsc_id) == ScanLines(content, lcsc_id, 1, FALSE, 0, FALSE, <<>>)

\* writeln!(file, "{}", line): the line is written with a "\n" terminator.
WrittenLine(line) == [line EXCEPT !.eol = "LF"]

\* A library directory that holds the artifacts of the components `ids`.
LibOf(ids) ==
    LET RECURSIVE Put(_, _)
        Put(content, k) ==
            IF k > Len(ids) THEN content
            ELSE Put(PutEntry(content, ComponentName(RemoteTitle(ids[k]), ids[k]), "o"),
                     k + 1)
    IN Put(EmptyLib, 1)

FootprintsOf(ids) ==
    {[name |-> ComponentName(RemoteTitle(ids[k]), ids[k]),
      model |-> IF RemoteModel3d(ids[k])
                THEN ComponentName(RemoteModelTitle(ids[k]), ids[k]) ELSE <<>>] :
        k \in 1..Len(ids)}

MeshesOf(ids) ==
    {[name |-> ComponentName(RemoteModelTitle(ids[k]), ids[k]), ext |-> e] :
        k \in {j \in 1..Len(ids) : RemoteModel3d(ids[j])}, e \in {"wrl", "step"}}

Libraries == {<<>>, <<C1>>, <<C2, C12>>, <<C12, C1, C2>>, <<C2, C1>>}

\* The library file as it is found on disk: every line ends with `eol`
\* ("LF" or "CRLF"), the last one with nothing when the file has no final
\* line terminator. str::lines() splits at either terminator and yields a
\* last line that has none.
FileAs(content, eol, final) ==
    [k \in 1..Len(content) |->
        [content[k] EXCEPT !.eol = IF k = Len(content) /\ ~final
                                   THEN "none" ELSE eol]]

FileFormats == {[eol |-> e, final |-> f] : e \in {"LF", "CRLF"}, f \in BOOLEAN}

InitRemove ==
    /\ args = [parallel |-> 1, continue_on_error |-> FALSE, overwrite |-> FALSE,
               symbol |-> FALSE, footprint |-> FALSE, model_3d |-> FALSE,
               full |-> FALSE]
    /\ lcsc_ids = <<>>
    /\ mainPc = "remove"
    /\ seqIndex = 1
    /\ taskPc = <<>>
    /\ taskRes = <<>>
    /\ permits = 0
    /\ success_count = 0
    /\ failed_count = 0
    /\ failed_ids = <<>>
    /\ libLock = 0
    /\ \E ids \in Libraries, fmt \in FileFormats :
          /\ lib = FileAs(LibOf(ids), fmt.eol, fmt.final)
          /\ fpFiles = FootprintsOf(ids)
          /\ meshFiles = MeshesOf(ids)
          /\ meshWarn = {}
    /\ runResult = "none"
    /\ summary = NoSummary
    /\ rmPc = "start"
    /\ rmId \in {C1, C12, C2}
    /\ rmNew = <<>>
    /\ rmLocal = 0
    /\ rmCount = 0
    /\ rmErrors = <<>>
    /\ libBefore = lib
    /\ dirBefore = [footprints |-> fpFiles, meshes |-> meshFiles]
    /\ storeCall = NoCall
    /\ conv = NoConversion

runVars == <<args, lcsc_ids, mainPc, seqIndex, taskPc, taskRes, permits,
             success_count, failed_count, failed_ids, libLock, summary,
             meshWarn, conv>>

\* handle_remove: the directory given to --from must exist.
RmStart ==
    /\ rmPc = "start"
    /\ \/ /\ rmPc' = "symbol"
          /\ UNCHANGED runResult
       \/ /\ rmPc' = "done"
          /\ runResult' = "ErrOther"
    /\ UNCHANGED <<runVars, lib, fpFiles, meshFiles, rmId, rmNew, rmLocal,
                   rmCount, rmErrors, libBefore, dirBefore,
                   storeCall>>

\* A scan that has the file rewritten whether or not a span matched.
RmScanAlwaysRewrite ==
    /\ rmPc = "symbol"
    /\ rmNew' = RemoveScan(lib, rmId).new_lines
    /\ rmPc' = "create"
    /\ UNCHANGED <<runVars, lib, fpFiles, meshFiles, runResult, rmId, rmLocal,
                   rmCount, rmErrors, libBefore, dirBefore,
                   storeCall>>

\* remove_component_from_symbol_lib: the file is read and scanned; without
\* a match it returns Ok(false) and the file is left alone.
RmScan ==
    /\ rmPc = "symbol"
    /\ \/ /\ rmErrors' = Append(rmErrors, "symbol")
          /\ rmPc' = "footprints"
          /\ UNCHANGED rmNew
       \/ LET r == RemoveScan(lib, rmId)
          IN /\ rmNew' = IF r.found THEN r.new_lines ELSE <<>>
             /\ rmPc' = IF r.found THEN "create" ELSE "footprints"
             /\ UNCHANGED rmErrors
    /\ UNCHANGED <<runVars, lib, fpFiles, meshFiles, runResult, rmId, rmLocal,
                   rmCount, libBefore, dirBefore,
                   storeCall>>

\* A removal that gives up as soon as the container cannot be rewritten.
RmCreateAbort ==
    /\ rmPc = "create"
    /\ \/ /\ lib' = <<>>
          /\ rmPc' = "write"
          /\ UNCHANGED <<rmErrors, rmNew>>
       \/ /\ rmErrors' = Append(rmErrors, "symbol")
          /\ rmPc' = "report"
          /\ rmNew' = <<>>
          /\ UNCHANGED lib
    /\ UNCHANGED <<runVars, fpFiles, meshFiles, runResult, rmId, rmLocal,
                   rmCount, libBefore, dirBefore, storeCall>>

\* fs::File::create(lib_path): the library file is truncated.
RmCreate ==
    /\ rmPc = "create"
    /\ \/ /\ lib' = <<>>
          /\ rmPc' = "write"
          /\ UNCHANGED <<rmErrors, rmNew>>
       \/ /\ rmErrors' = Append(rmErrors, "symbol")
          /\ rmPc' = "footprints"
          /\ rmNew' = <<>>
          /\ UNCHANGED lib
    /\ UNCHANGED <<runVars, fpFiles, meshFiles, runResult, rmId, rmLocal,
                   rmCount, libBefore, dirBefore,
                   storeCall>>

\* writeln!(file, "{}", line) for the next kept line.
RmWriteLine ==
    /\ rmPc = "write"
    /\ rmNew # <<>>
    /\ \/ /\ lib' = Append(lib, WrittenLine(Head(rmNew)))
          /\ rmNew' = Tail(rmNew)
          /\ UNCHANGED <<rmErrors, rmPc>>
       \/ /\ rmErrors' = Append(rmErrors, "symbol")
          /\ rmPc' = "footprints"
          /\ rmNew' = <<>>
          /\ UNCHANGED lib
    /\ UNCHANGED <<runVars, fpFiles, meshFiles, runResult, rmId, rmLocal,
                   rmCount, libBefore, dirBefore,
                   storeCall>>

\* Every kept line is written: Ok(true), removed_count += 1.
RmWriteEnd ==
    /\ rmPc = "write"
    /\ rmNew = <<>>
    /\ rmCount' = rmCount + 1
    /\ rmPc' = "footprints"
    /\ UNCHANGED <<runVars, lib, fpFiles, meshFiles, runResult, rmId, rmNew,
                   rmLocal, rmErrors, libBefore, dirBefore,
                   storeCall>>

\* remove_footprint_files: the next directory entry whose file name
\* contains the identifier is deleted; a failed deletion returns the error.
RmFootprintFile ==
    /\ rmPc = "footprints"
    /\ \E f \in fpFiles :
          /\ Contains(f.name, rmId)
          /\ \/ /\ fpFiles' = fpFiles \ {f}
                /\ rmLocal' = rmLocal + 1
                /\ UNCHANGED <<rmErrors, rmPc>>
             \/ /\ rmErrors' = Append(rmErrors, "footprints")
                /\ rmLocal' = 0
                /\ rmPc' = "models"
                /\ UNCHANGED fpFiles
    /\ UNCHANGED <<runVars, lib, meshFiles, runResult, rmId, rmNew, rmCount,
                   libBefore, dirBefore,
                   storeCall>>

\* remove_footprint_files returns Ok(count): removed_count += count.
RmFootprintEnd ==
    /\ rmPc = "footprints"
    /\ \A f \in fpFiles : ~Contains(f.name, rmId)
    /\ rmCount' = rmCount + rmLocal
    /\ rmLocal' = 0
    /\ rmPc' = "models"
    /\ UNCHANGED <<runVars, lib, fpFiles, meshFiles, runResult, rmId, rmNew,
                   rmErrors, libBefore, dirBefore,
                   storeCall>>

\* remove_3d_model_files: as for the footprints, over the .step and .wrl
\* files.
RmModelFile ==
    /\ rmPc = "models"
    /\ \E f \in meshFiles :
          /\ Contains(f.name, rmId)
          /\ \/ /\ meshFiles' = meshFiles \ {f}
                /\ rmLocal' = rmLocal + 1
                /\ UNCHANGED <<rmErrors, rmPc>>
             \/ /\ rmErrors' = Append(rmErrors, "models")
                /\ rmLocal' = 0
                /\ rmPc' = "report"
                /\ UNCHANGED meshFiles
    /\ UNCHANGED <<runVars, lib, fpFiles, runResult, rmId, rmNew, rmCount,
                   libBefore, dirBefore,
                   storeCall>>

\* remove_3d_model_files returns Ok(count): removed_count += count.
RmModelEnd ==
    /\ rmPc = "models"
    /\ \A f \in meshFiles : ~Contains(f.name, rmId)
    /\ rmCount' = rmCount + rmLocal
    /\ rmLocal' = 0
    /\ rmPc' = "report"
    /\ UNCHANGED <<runVars, lib, fpFiles, meshFiles, runResult, rmId, rmNew,
                   rmErrors, libBefore, dirBefore,
                   storeCall>>

\* What handle_remove prints at its end: the collected errors, one line
\* each, and the number of removals.
RemovalReport ==
    [kind |-> "removal", total |-> rmCount, success |-> rmCount,
     failed |-> Len(rmErrors), failed_list |-> rmErrors]

\* The collected errors and the count are printed; Ok(()) is returned.
RmReport ==
    /\ rmPc = "report"
    /\ rmPc' = "done"
    /\ summary' = RemovalReport
    /\ runResult' = "Ok"
    /\ UNCHANGED <<args, lcsc_ids, mainPc, seqIndex, taskPc, taskRes, permits,
                   success_count, failed_count, failed_ids, libLock, meshWarn,
                   lib, fpFiles, meshFiles, rmId, rmNew, rmLocal, rmCount,
                   rmErrors, libBefore, dirBefore, storeCall, conv>>

NextRemove ==
    \/ RmStart
    \/ RmScan
    \/ RmCreate
    \/ RmWriteLine
    \/ RmWriteEnd
    \/ RmFootprintFile
    \/ RmFootprintEnd
    \/ RmModelFile
    \/ RmModelEnd
    \/ RmReport

SpecRemove == InitRemove /\ [][NextRemove]_vars

\* --------------------------------------------- the removal scan alone
\* The shapes in which one entry of the symbol library is laid out over lines.
\* "flat": opening line, body, closing line. "unit": the entry holds a
\* sub-entry whose opening line is a "(symbol" line with the name of the entry
\* followed by a unit suffix. "attrs": the opening line holds further
\* brackets, closed on the same line. "open": the opening line opens a list
\* that the next line closes. "line": the whole entry is on one line.
EntryShapes == {"flat", "unit", "attrs", "open", "line"}

ShapedEntry(name, shape) ==
    CASE shape = "flat" -> SymbolEntry(name, "o")
      [] shape = "unit" ->
            << LibLine(TRUE, name, 1, 0),
               LibLine(TRUE, name \o <<"_", "0">>, 1, 0),
               LibLine(FALSE, <<"o">>, 1, 1),
               LibLine(FALSE, <<>>, 0, 1),
               LibLine(FALSE, <<>>, 0, 1) >>
      [] shape = "attrs" ->
            << LibLine(TRUE, name, 2, 1),
               LibLine(FALSE, <<"o">>, 1, 1),
               LibLine(FALSE, <<>>, 0, 1) >>
      [] shape = "open" ->
            << LibLine(TRUE, name, 2, 0),
               LibLine(FALSE, <<"o">>, 0, 1),
               LibLine(FALSE, <<>>, 0, 1) >>
      [] OTHER -> << LibLine(TRUE, name, 2, 2) >>

ScanEntries ==
    {ShapedEntry(ComponentName(RemoteTitle(id), id), shape) :
        id \in {C1, C2}, shape \in EntryShapes}

RECURSIVE Flatten(_)
Flatten(entries) ==
    IF entries = <<>> THEN <<>> ELSE Head(entries) \o Flatten(Tail(entries))

ScanContainers ==
    {<<HeaderLine>> \o Flatten(entries) \o <<FooterLine>> :
        entries \in UNION {[1..n -> ScanEntries] : n \in 1..MaxEntries}}

InitScan ==
    /\ args = [parallel |-> 1, continue_on_error |-> FALSE, overwrite |-> FALSE,
               symbol |-> FALSE, footprint |-> FALSE, model_3d |-> FALSE,
               full |-> FALSE]
    /\ lcsc_ids = <<>>
    /\ mainPc = "remove"
    /\ seqIndex = 1
    /\ taskPc = <<>>
    /\ taskRes = <<>>
    /\ permits = 0
    /\ success_count = 0
    /\ failed_count = 0
    /\ failed_ids = <<>>
    /\ libLock = 0
    /\ lib \in ScanContainers
    /\ fpFiles = {}
    /\ meshFiles = {}
    /\ meshWarn = {}
    /\ runResult = "none"
    /\ summary = NoSummary
    /\ rmPc = "scan"
    /\ rmId \in {C1, C2}
    /\ rmNew = <<>>
    /\ rmLocal = 0
    /\ rmCount = 0
    /\ rmErrors = <<>>
    /\ libBefore = lib
    /\ dirBefore = [footprints |-> fpFiles, meshes |-> meshFiles]
    /\ storeCall = NoCall
    /\ conv = NoConversion

\* The loop of remove_component_from_symbol_lib is run over the lines of the
\* library: new_lines, and `found` kept as 1 or 0.
ScanCall ==
    /\ rmPc = "scan"
    /\ LET r == RemoveScan(lib, rmId)
       IN /\ rmNew' = r.new_lines
          /\ rmLocal' = IF r.found THEN 1 ELSE 0
    /\ rmPc' = "scanned"
    /\ UNCHANGED <<runVars, lib, fpFiles, meshFiles, runResult, rmId, rmCount,
                   rmErrors, libBefore, dirBefore, storeCall>>

NextScan == ScanCall

SpecScan == InitScan /\ [][NextScan]_vars

\* ------------------------------------------------ download_with_retry alone
\* What one attempt can meet: the bytes, a request error (send), a
\* non-success status, a body that cannot be read.
AttemptOutcomes == {"ok", "send", "status", "body"}
AttemptScripts == [1..MAX_RETRIES -> AttemptOutcomes]

\* A wait that does not grow with the attempt.
BackoffFlat(attempt) == 500

\* tokio::time::sleep(Duration::from_millis(500 * attempt))
Backoff(attempt) == 500 * attempt

\* The error returned at the last attempt.
DownloadError(outcome) == IF outcome = "status" THEN "InvalidData" ELSE "ApiRequest"

Get(attempt) == [op |-> "get", arg |-> attempt]
Sleep(ms) == [op |-> "sleep", arg |-> ms]

InitDownload ==
    /\ args = [parallel |-> 1, continue_on_error |-> FALSE, overwrite |-> FALSE,
               symbol |-> FALSE, footprint |-> FALSE, model_3d |-> FALSE,
               full |-> FALSE]
    /\ lcsc_ids = <<>>
    /\ mainPc = "download"
    /\ seqIndex = 1
    /\ taskPc = <<>>
    /\ taskRes = <<>>
    /\ permits = 0
    /\ success_count = 0
    /\ failed_count = 0
    /\ failed_ids = <<>>
    /\ libLock = 0
    /\ lib = EmptyLib
    /\ fpFiles = {}
    /\ meshFiles = {}
    /\ meshWarn = {}
    /\ runResult = "none"
    /\ summary = NoSummary
    /\ rmPc = "off"
    /\ rmId = <<>>
    /\ rmNew = <<>>
    /\ rmLocal = 0
    /\ rmCount = 0
    /\ rmErrors = <<>>
    /\ libBefore = lib
    /\ dirBefore = [footprints |-> fpFiles, meshes |-> meshFiles]
    /\ storeCall = NoCall
    /\ \E script \in AttemptScripts :
          conv = [kind |-> "download", bbox |-> <<0, 0>>, input |-> script,
                  output |-> [attempt |-> 0, log |-> <<>>, result |-> "none"],
                  done |-> FALSE]

downloadFrame ==
    <<args, lcsc_ids, mainPc, seqIndex, taskPc, taskRes, permits, success_count,
      failed_count, failed_ids, libLock, lib, fpFiles, meshFiles, meshWarn,
      runResult, summary, rmVars>>

\* One turn of `for attempt in 1..=MAX_RETRIES`: the request is sent; the
\* bytes are returned, or the error is returned at the last attempt, or the
\* task sleeps and goes on to the next attempt.
DownloadAttempt ==
    /\ conv.kind = "download"
    /\ ~conv.done
    /\ LET attempt == conv.output.attempt + 1
           outcome == conv.input[attempt]
           sent == Append(conv.output.log, Get(attempt))
       IN  conv' =
             IF outcome = "ok"
             THEN [conv EXCEPT !.output = [attempt |-> attempt, log |-> sent,
                                           result |-> "Ok"],
                               !.done = TRUE]
             ELSE IF attempt = MAX_RETRIES
             THEN [conv EXCEPT !.output = [attempt |-> attempt, log |-> sent,
                                           result |-> DownloadError(outcome)],
                               !.done = TRUE]
             ELSE [conv EXCEPT !.output = [attempt |-> attempt,
                                           log |-> Append(sent, Sleep(Backoff(attempt))),
                                           result |-> "none"]]
    /\ UNCHANGED downloadFrame

NextDownload == DownloadAttempt

SpecDownload == InitDownload /\ [][NextDownload]_vars

\* -------------------------------------------------------------- geometry
\* The conversions that process_component applies to the shapes of a
\* symbol and of a footprint, taken alone. Coordinates are integers.
MaxRects == 3      \* most rectangles of one symbol
MaxTokens == 4     \* most tokens of one path string

\* Symbol space, pins: adjusted = (x - bbox_x, y - bbox_y), emitted as
\* (adjusted_x, -adjusted_y).
PinPoint(x, y, bbox) == <<x - bbox[1], -(y - bbox[2])>>

\* A symbol-space normalization that only translates.
SymbolPointAsIs(x, y, bbox) == <<x - bbox[1], y - bbox[2]>>

\* Symbol space, every other shape: (x - bbox_x, bbox_y - y).
SymbolPoint(x, y, bbox) == <<x - bbox[1], bbox[2] - y>>

\* Footprint space: (x - package_bbox_x, y - package_bbox_y).
FootprintPoint(x, y, bbox) == <<x - bbox[1], y - bbox[2]>>

NormalizePoint(space, x, y, bbox) ==
    CASE space = "pin"    -> PinPoint(x, y, bbox)
      [] space = "symbol" -> SymbolPoint(x, y, bbox)
      [] OTHER            -> FootprintPoint(x, y, bbox)

\* Every rectangle keeping its own fill flag.
RectFillOwn(idx, fill) == fill

\* let fill = if idx == 0 { true } else { ee_rect.fill }
RectFill(idx, fill) == IF idx = 0 THEN TRUE ELSE fill

\* One turn of the rectangle loop: the KiRectangle pushed for ee_rect.
ConvertRectangle(idx, ee_rect, bbox) ==
    LET p1 == SymbolPoint(ee_rect.x, ee_rect.y, bbox)
        p2 == SymbolPoint(ee_rect.x + ee_rect.width, ee_rect.y + ee_rect.height, bbox)
    IN [x1 |-> p1[1], y1 |-> p1[2], x2 |-> p2[1], y2 |-> p2[2],
        fill |-> RectFill(idx, ee_rect.fill)]

\* ki_symbol.rectangles after the loop over ee_symbol.rectangles.
ConvertRectangles(rectangles, bbox) ==
    [k \in 1..Len(rectangles) |-> ConvertRectangle(k - 1, rectangles[k], bbox)]

\* A token of a path string (split_whitespace): a command letter, a token
\* "x,y" whose two parts parse as numbers ("pair") or do not ("badpair"), a
\* number ("num", value in x), or anything else ("other").
Tok(t, x, y) == [t |-> t, x |-> x, y |-> y]
Cmd(c) == Tok(c, 0, 0)
Pair(x, y) == Tok("pair", x, y)
Num(v) == Tok("num", v, 0)

RECURSIVE PathLoop(_, _, _, _)
\* The while loop over the tokens, from tokens[i] on (i counts from 1),
\* with the points pushed so far.
PathLoop(tokens, i, points, bbox) ==
    IF i > Len(tokens) THEN points
    ELSE IF tokens[i].t \in {"M", "L"}
    THEN IF i + 1 <= Len(tokens)
         THEN LET coord == tokens[i + 1]
              IN IF coord.t \in {"pair", "badpair"}
                 THEN PathLoop(tokens, i + 2,
                               IF coord.t = "pair"
                               THEN Append(points, SymbolPoint(coord.x, coord.y, bbox))
                               ELSE points,
                               bbox)
                 ELSE IF i + 2 <= Len(tokens) /\ coord.t = "num"
                         /\ tokens[i + 2].t = "num"
                 THEN PathLoop(tokens, i + 3,
                               Append(points,
                                      SymbolPoint(coord.x, tokens[i + 2].x, bbox)),
                               bbox)
                 ELSE PathLoop(tokens, i + 2, points, bbox)
         ELSE PathLoop(tokens, i + 1, points, bbox)
    ELSE IF tokens[i].t \in {"Z", "z"}
    THEN PathLoop(tokens, i + 1,
                  IF points # <<>> THEN Append(points, points[1]) ELSE points,
                  bbox)
    ELSE PathLoop(tokens, i + 1, points, bbox)

\* The points of one path, and the polylines pushed for it: the path is
\* dropped when it has fewer than two points.
PathPoints(tokens, bbox) == PathLoop(tokens, 1, <<>>, bbox)

\* Every path kept, however few points it has.
PathPolylinesKeepAll(tokens, bbox) == <<PathPoints(tokens, bbox)>>

PathPolylines(tokens, bbox) ==
    LET points == PathPoints(tokens, bbox)
    IN IF Len(points) >= 2 THEN <<points>> ELSE <<>>

\* Inputs.
\* Footprint arcs. Coordinates are in thousandths; angles are in degrees,
\* multiples of 45, for which the cosine is tabulated to three decimals.
Norm360(a) == a % 360
CosMilli(a) ==
    CASE Norm360(a) = 0 -> 1000
      [] Norm360(a) \in {45, 315} -> 707
      [] Norm360(a) \in {90, 270} -> 0
      [] Norm360(a) \in {135, 225} -> -707
      [] OTHER -> -1000
SinMilli(a) == CosMilli(a - 90)

RightAngles == {0, 90, 180, 270}

\* The point of the circle of centre c and radius r at angle a.
OnCircle(c, r, a) == <<c[1] + r * CosMilli(a), c[2] + r * SinMilli(a)>>

\* The angle swept from angle a to angle b, in the direction of the sweep flag
\* (sweep = positive-angle direction).
SweptAngle(a, b, sweep) == IF sweep THEN Norm360(b - a) ELSE Norm360(a - b)

\* An angle as the solver reports it: in (-180, 180] or in [0, 360).
InRange(a, range) ==
    IF range = "signed" /\ Norm360(a) > 180 THEN Norm360(a) - 360 ELSE Norm360(a)

\* compute_arc_center: the endpoint-to-centre parameterization. The centre is
\* the one of the two candidates that the large-arc and sweep flags select;
\* the start and end angles are those of the endpoints seen from the centre,
\* in the frame of the ellipse (rotated by x_rotation). `range` is the
\* convention in which the angles are reported ("extent": the end angle is
\* the start angle plus the signed angle swept).
compute_arc_center(start, end, radii, x_rotation, large_arc, sweep, range) ==
    LET r == radii[1]
        centres == {c \in {<<start[1] - r * CosMilli(a), start[2] - r * SinMilli(a)>> :
                              a \in RightAngles} :
                        \E b \in RightAngles : end = OnCircle(c, r, b)}
        angleAt(p, c) == CHOOSE a \in RightAngles : p = OnCircle(c, r, a)
        swept(c) == SweptAngle(angleAt(start, c), angleAt(end, c), sweep)
        centre == CHOOSE c \in centres :
                      swept(c) = 180 \/ ((swept(c) > 180) <=> large_arc)
        start_angle == InRange(angleAt(start, centre) - x_rotation, range)
        end_angle == IF range = "extent"
                     THEN start_angle + (IF sweep THEN swept(centre) ELSE -swept(centre))
                     ELSE InRange(angleAt(end, centre) - x_rotation, range)
    IN  [cx |-> centre[1], cy |-> centre[2],
         start_angle |-> start_angle, end_angle |-> end_angle]

\* let mut mid_angle = (start_rad + end_rad) / 2.0; if the sweep direction
\* does not match, mid_angle += PI.
MidAngle(start_angle, end_angle, sweep) ==
    LET angle_diff == end_angle - start_angle
    IN  IF (sweep /\ angle_diff < 0) \/ (~sweep /\ angle_diff > 0)
        THEN (start_angle + end_angle) \div 2 + 180
        ELSE (start_angle + end_angle) \div 2

\* One footprint arc: the centre and the angles from compute_arc_center, the
\* midpoint from the centre, the radii as given and the midpoint angle, and
\* the three points translated by the bbox origin of the package.
ConvertArc(arc, bbox, range) ==
    LET solved == compute_arc_center(arc.start, arc.end, <<arc.rx, arc.ry>>,
                                     arc.x_rotation, arc.large_arc, arc.sweep, range)
        mid_angle == MidAngle(solved.start_angle, solved.end_angle, arc.sweep)
        mid_x == solved.cx + arc.rx * CosMilli(mid_angle)
        mid_y == solved.cy + arc.ry * SinMilli(mid_angle)
    IN  [start |-> FootprintPoint(arc.start[1], arc.start[2], bbox),
         mid |-> FootprintPoint(mid_x, mid_y, bbox),
         end |-> FootprintPoint(arc.end[1], arc.end[2], bbox),
         mid_angle |-> mid_angle,
         start_angle |-> solved.start_angle,
         end_angle |-> solved.end_angle]

\* Arcs of circles, given by their endpoint parameters: every centre, radius,
\* pair of distinct endpoints a multiple of 90 degrees apart, rotation and
\* sweep; the large-arc flag is the one of the arc (either one for a half turn).
ArcCentres == {<<0, 0>>, <<1000, -2000>>}
ArcRadii == {1, 2}
AngleRanges == {"signed", "unsigned", "extent"}
ArcSet ==
    {[start |-> OnCircle(c, r, a), end |-> OnCircle(c, r, b), rx |-> r, ry |-> r,
      x_rotation |-> rot, large_arc |-> large, sweep |-> sweep] :
        c \in ArcCentres, r \in ArcRadii,
        a \in RightAngles, b \in RightAngles, rot \in RightAngles,
        large \in BOOLEAN, sweep \in BOOLEAN}
ArcInputs ==
    {arc \in ArcSet :
        /\ arc.start # arc.end
        /\ \E c \in ArcCentres, a \in RightAngles, b \in RightAngles :
              /\ arc.start = OnCircle(c, arc.rx, a)
              /\ arc.end = OnCircle(c, arc.rx, b)
              /\ \/ SweptAngle(a, b, arc.sweep) = 180
                 \/ (SweptAngle(a, b, arc.sweep) > 180) <=> arc.large_arc}

Origins == {<<0, 0>>, <<1, 2>>}
Coords == {-2, 0, 1, 3}
RectSet ==
    {[x |-> x, y |-> y, width |-> 2, height |-> 1, fill |-> f] :
        x \in {0, 2}, y \in {0, 3}, f \in BOOLEAN}
RectLists == UNION {[1..n -> RectSet] : n \in 0..MaxRects}
PointSet == {[space |-> s, x |-> x, y |-> y] :
                s \in {"pin", "symbol", "footprint"}, x \in Coords, y \in Coords}
TokenSet == {Cmd("M"), Cmd("L"), Cmd("Z"), Cmd("z"), Cmd("H"), Pair(1, 2),
             Tok("badpair", 0, 0), Num(3), Num(4)}
ExamplePath == <<Cmd("M"), Pair(0, 0), Cmd("L"), Pair(10, 0), Cmd("L"),
                 Pair(10, 10), Cmd("Z")>>
TokenLists == UNION {[1..n -> TokenSet] : n \in 0..MaxTokens} \cup {ExamplePath}

Conversion(kind, bbox, input) ==
    [kind |-> kind, bbox |-> bbox, input |-> input, output |-> <<>>,
     done |-> FALSE]

InitGeometry ==
    /\ args = [parallel |-> 1, continue_on_error |-> FALSE, overwrite |-> FALSE,
               symbol |-> FALSE, footprint |-> FALSE, model_3d |-> FALSE,
               full |-> FALSE]
    /\ lcsc_ids = <<>>
    /\ mainPc = "geometry"
    /\ seqIndex = 1
    /\ taskPc = <<>>
    /\ taskRes = <<>>
    /\ permits = 0
    /\ success_count = 0
    /\ failed_count = 0
    /\ failed_ids = <<>>
    /\ libLock = 0
    /\ lib = EmptyLib
    /\ fpFiles = {}
    /\ meshFiles = {}
    /\ meshWarn = {}
    /\ runResult = "none"
    /\ summary = NoSummary
    /\ rmPc = "off"
    /\ rmId = <<>>
    /\ rmNew = <<>>
    /\ rmLocal = 0
    /\ rmCount = 0
    /\ rmErrors = <<>>
    /\ libBefore = lib
    /\ dirBefore = [footprints |-> fpFiles, meshes |-> meshFiles]
    /\ storeCall = NoCall
    /\ \E bbox \in Origins :
          \/ \E input \in RectLists : conv = Conversion("rectangles", bbox, input)
          \/ \E input \in PointSet : conv = Conversion("point", bbox, input)
          \/ \E input \in TokenLists : conv = Conversion("path", bbox, input)
          \/ \E input \in ArcInputs : conv = Conversion("arc", bbox, input)

\* Everything but the conversion taken alone.
nonGeometryVars ==
    <<args, lcsc_ids, mainPc, seqIndex, taskPc, taskRes, permits, success_count,
      failed_count, failed_ids, libLock, lib, fpFiles, meshFiles, meshWarn,
      runResult, summary, rmVars>>

\* The rectangle loop is run on the rectangles of a symbol.
ConvertRectanglesCall ==
    /\ conv.kind = "rectangles"
    /\ ~conv.done
    /\ conv' = [conv EXCEPT !.output = ConvertRectangles(conv.input, conv.bbox),
                            !.done = TRUE]
    /\ UNCHANGED nonGeometryVars

\* One point of a shape is normalized.
NormalizeCall ==
    /\ conv.kind = "point"
    /\ ~conv.done
    /\ conv' = [conv EXCEPT !.output = NormalizePoint(conv.input.space, conv.input.x,
                                                      conv.input.y, conv.bbox),
                            !.done = TRUE]
    /\ UNCHANGED nonGeometryVars

\* The path loop is run on the tokens of one path.
TokenizeCall ==
    /\ conv.kind = "path"
    /\ ~conv.done
    /\ conv' = [conv EXCEPT !.output = [points |-> PathPoints(conv.input, conv.bbox),
                                        polylines |-> PathPolylines(conv.input, conv.bbox)],
                            !.done = TRUE]
    /\ UNCHANGED nonGeometryVars

\* The arc loop is run on one arc of a footprint.
ArcCall ==
    /\ conv.kind = "arc"
    /\ ~conv.done
    /\ \E range \in AngleRanges :
          conv' = [conv EXCEPT !.output = ConvertArc(conv.input, conv.bbox, range),
                               !.done = TRUE]
    /\ UNCHANGED nonGeometryVars

NextGeometry ==
    \/ ConvertRectanglesCall
    \/ NormalizeCall
    \/ TokenizeCall
    \/ ArcCall

SpecGeometry == InitGeometry /\ [][NextGeometry]_vars

\* ------------------------------------------------- library store alone
InitStore ==
    /\ args = [parallel |-> 1, continue_on_error |-> FALSE, overwrite |-> FALSE,
               symbol |-> FALSE, footprint |-> FALSE, model_3d |-> FALSE,
               full |-> FALSE]
    /\ lcsc_ids = <<>>
    /\ mainPc = "store"
    /\ seqIndex = 1
    /\ taskPc = <<>>
    /\ taskRes = <<>>
    /\ permits = 0
    /\ success_count = 0
    /\ failed_count = 0
    /\ failed_ids = <<>>
    /\ libLock = 0
    /\ lib \in {LibOf(ids) : ids \in Libraries}
    /\ fpFiles = {}
    /\ meshFiles = {}
    /\ meshWarn = {}
    /\ runResult = "none"
    /\ summary = NoSummary
    /\ rmPc = "off"
    /\ rmId = <<>>
    /\ rmNew = <<>>
    /\ rmLocal = 0
    /\ rmCount = 0
    /\ rmErrors = <<>>
    /\ libBefore = lib
    /\ dirBefore = [footprints |-> fpFiles, meshes |-> meshFiles]
    /\ storeCall = NoCall
    /\ conv = NoConversion

\* One call of add_or_update_component(lib_path, name, data, overwrite).
StoreCall ==
    /\ mainPc = "store"
    /\ \E id \in {C1, C12, C2}, payload \in {"n", "o"}, overwrite \in BOOLEAN :
          LET key == ComponentName(RemoteTitle(id), id)
              r == AddOrUpdate(lib, key, payload, overwrite)
          IN /\ lib' = r.content
             /\ storeCall' = [key |-> key, payload |-> payload,
                              overwrite |-> overwrite, result |-> r.result,
                              before |-> lib]
    /\ UNCHANGED <<runVars, fpFiles, meshFiles, runResult, rmPc, rmId, rmNew,
                   rmLocal, rmCount, rmErrors, libBefore,
                   dirBefore>>

SpecStore == InitStore /\ [][StoreCall]_vars

\* =============================================================== claims
SetupFailed == runResult \in {"ErrInput", "ErrIo"}

\* Conversions that hold an admission unit and whose outcome is not yet
\* fully recorded.
InFlight ==
    {i \in Tasks : taskPc[i] \in {"fetch", "symbol", "lib_lock", "lib_write",
                                  "footprint", "model_obj", "model_step",
                                  "returned", "push_failed"}}

\* Number of positions of the sequence q that hold x.
Occurrences(q, x) == Cardinality({k \in 1..Len(q) : q[k] = x})

\* C1: in a parallel batch (P > 1, N > 1) the number of conversions in
\* flight never exceeds the parallelism limit P.
C1_InFlightAtMostP ==
    Parallel => Cardinality(InFlight) <= args.parallel

\* C1 witness: the gate is full (P conversions in flight) while another
\* spawned task is waiting for a unit.
C1_Witness ==
    /\ Parallel
    /\ Cardinality(InFlight) = args.parallel
    /\ \E i \in Tasks : taskPc[i] = "acquire"

\* C2: when the final report is read, success + failure = N, the failure
\* counter equals the length of the failure list, and the failure list holds
\* each identifier once per failed conversion of it.
C2_OutcomesRecordedOnce ==
    (mainPc = "done" /\ runResult = "Ok") =>
        /\ success_count + failed_count = total_count
        /\ failed_count = Len(failed_ids)
        /\ success_count = Cardinality({i \in Tasks : taskRes[i] = "Ok"})
        /\ \A i \in Tasks :
              Occurrences(failed_ids, lcsc_ids[i]) =
                 Cardinality({j \in Tasks : lcsc_ids[j] = lcsc_ids[i]
                                              /\ IsErr(taskRes[j])})

\* C2 witness: a parallel run reported with both conversions of the same
\* identifier failed and another conversion succeeded.
C2_Witness ==
    /\ Parallel
    /\ mainPc = "done"
    /\ runResult = "Ok"
    /\ success_count >= 1
    /\ \E i, j \in Tasks : i # j /\ lcsc_ids[i] = lcsc_ids[j]
                              /\ IsErr(taskRes[i]) /\ IsErr(taskRes[j])

\* C3: a parallel batch whose conversions all succeed ends with success = N,
\* failure = 0 and an empty failure list.
C3_AllSucceed ==
    (Parallel /\ mainPc = "done" /\ \A i \in Tasks : taskRes[i] = "Ok") =>
        /\ summary.total = total_count
        /\ summary.success = total_count
        /\ summary.failed = 0
        /\ summary.failed_list = <<>>

\* C3 witness: a parallel batch of MaxN identifiers has ended with every
\* conversion successful.
C3_Witness ==
    /\ Parallel
    /\ total_count = MaxN
    /\ mainPc = "done"
    /\ \A i \in Tasks : taskRes[i] = "Ok"

\* Conversions whose add_or_update mutation of the container is in flight.
Mutating == {i \in Tasks : taskPc[i] = "lib_write"}

\* C4: during a parallel batch at most one add_or_update mutation of the
\* shared symbol container is in flight, and it is the lock holder's.
C4_SingleWriter ==
    Parallel => /\ Cardinality(Mutating) <= 1
                /\ \A i \in Mutating : libLock = i

\* C4 witness: one conversion is mutating the container while another one
\* waits to enter the critical section.
C4_Witness ==
    /\ Parallel
    /\ \E i, j \in Tasks : taskPc[i] = "lib_write" /\ taskPc[j] = "lib_lock"

\* The container after the removal of an identifier, as the scan computes
\* and writes it.
RemovedContent(content, lcsc_id) ==
    LET kept == RemoveScan(content, lcsc_id).new_lines
    IN [k \in 1..Len(kept) |-> WrittenLine(kept[k])]

RECURSIVE EntriesFrom(_, _)
\* The entries of a container, read line by line: the name on each opening
\* line with the payload on the line after it.
EntriesFrom(content, k) ==
    IF k > Len(content) THEN <<>>
    ELSE IF content[k].sym /\ k < Len(content)
    THEN <<[key |-> content[k].text, payload |-> content[k + 1].text]>>
            \o EntriesFrom(content, k + 1)
    ELSE EntriesFrom(content, k + 1)

Entries(content) == EntriesFrom(content, 1)

RECURSIVE Render(_)
\* The complete container that holds exactly the entries es.
Render(es) ==
    IF es = <<>> THEN EmptyLib
    ELSE LET front == Render(SubSeq(es, 1, Len(es) - 1))
             e == es[Len(es)]
         IN SubSeq(front, 1, Len(front) - 1)
               \o << LibLine(TRUE, e.key, 1, 0), LibLine(FALSE, e.payload, 1, 1),
                     LibLine(FALSE, <<>>, 0, 1), FooterLine >>

Complete(content) == content = Render(Entries(content))

\* C5: no reader observes the symbol container partially written: during
\* the removal of an entry its content is the complete content before the
\* removal or the complete content after it, and outside a removal it is a
\* complete container.
C5_NeverPartiallyWritten ==
    /\ rmPc # "off" =>
          lib = libBefore \/ lib = RemovedContent(libBefore, rmId)
    /\ rmPc = "off" => Complete(lib)

\* C6: add_or_update on an existing key with overwrite = false fails with
\* DuplicateComponent and leaves the container identical; with overwrite =
\* true it replaces only that key's entry, every other entry unchanged; on
\* a key that does not exist it inserts the entry.
C6_AddOrUpdate ==
    storeCall.result # "none" =>
        LET eb == Entries(storeCall.before)
            ea == Entries(lib)
            new == [key |-> storeCall.key, payload |-> <<storeCall.payload>>]
            exists == \E k \in 1..Len(eb) : eb[k].key = storeCall.key
        IN /\ Complete(lib)
           /\ (exists /\ ~storeCall.overwrite) =>
                 /\ storeCall.result = "ErrDuplicate"
                 /\ lib = storeCall.before
           /\ (exists /\ storeCall.overwrite) =>
                 /\ storeCall.result = "Ok"
                 /\ Len(ea) = Len(eb)
                 /\ \A k \in 1..Len(eb) :
                       ea[k] = IF eb[k].key = storeCall.key THEN new ELSE eb[k]
           /\ ~exists =>
                 /\ storeCall.result = "Ok"
                 /\ ea = Append(eb, new)

\* C6 witness: an overwriting call has replaced the payload of an existing
\* key in a container that holds other entries too.
C6_Witness ==
    /\ storeCall.result = "Ok"
    /\ storeCall.overwrite
    /\ Len(Entries(storeCall.before)) >= 2
    /\ \E k \in 1..Len(Entries(storeCall.before)) :
          /\ Entries(storeCall.before)[k].key = storeCall.key
          /\ Entries(storeCall.before)[k].payload # <<storeCall.payload>>
    /\ lib # storeCall.before

Sequential == ~Parallel /\ mainPc \notin {"start"} /\ ~SetupFailed /\ rmPc = "off"

Attempted(i) == taskPc[i] # "unspawned"
Running(i) == taskPc[i] \notin {"unspawned", "finished"}

\* C7: in sequential mode the identifiers are processed one at a time in
\* input order; with continue_on_error = false the run stops at the first
\* failing identifier, returns its error and attempts no later identifier;
\* with continue_on_error = true every identifier is attempted.
C7_SequentialOrder ==
    Sequential =>
        /\ \A i, j \in Tasks : (i < j /\ Attempted(j)) => taskPc[i] = "finished"
        /\ Cardinality({i \in Tasks : Running(i)}) <= 1
        /\ ~args.continue_on_error =>
              \A k \in Tasks :
                 (IsErr(taskRes[k]) /\ taskPc[k] = "finished") =>
                     /\ mainPc = "done"
                     /\ runResult = taskRes[k]
                     /\ \A i \in Tasks : i < k => taskRes[i] = "Ok"
                     /\ \A j \in Tasks : j > k => ~Attempted(j)
        /\ args.continue_on_error =>
              (mainPc = "done" =>
                  /\ runResult = "Ok"
                  /\ \A i \in Tasks : taskPc[i] = "finished")

\* C7 witness: a sequential run without continue_on_error has stopped at
\* its second identifier, the first one converted and the third one never
\* attempted.
C7_Witness ==
    /\ Sequential
    /\ ~args.continue_on_error
    /\ total_count >= 3
    /\ mainPc = "done"
    /\ taskRes[1] = "Ok"
    /\ IsErr(taskRes[2])
    /\ ~Attempted(3)

\* C8: in parallel batch mode a failed conversion never prevents another
\* identifier from being attempted and reaching its own outcome, whatever
\* continue_on_error: the run only ends after every identifier has its
\* outcome, and it ends with the report, not with the error.
C8_FailuresIsolated ==
    (Parallel /\ ~SetupFailed /\ mainPc \in {"report", "done"}) =>
        /\ \A i \in Tasks : taskPc[i] = "finished" /\ taskRes[i] \in {"Ok", "Err"}
        /\ mainPc = "done" => runResult = "Ok"

\* C8 witness: a parallel run without continue_on_error has ended with its
\* first conversion failed and a later one successful.
C8_Witness ==
    /\ Parallel
    /\ ~args.continue_on_error
    /\ mainPc = "done"
    /\ taskRes[1] = "Err"
    /\ \E i \in Tasks : i > 1 /\ taskRes[i] = "Ok"

BatchSummary ==
    [kind |-> "batch", total |-> total_count, success |-> success_count,
     failed |-> failed_count, failed_list |-> failed_ids]

\* C9 as stated: every batch run (N > 1) that got to process identifiers
\* ends by emitting the summary, also when some conversion failed.
C9_EveryBatchRunEndsWithSummary ==
    (is_batch /\ mainPc = "done" /\ ~SetupFailed) => summary.kind = "batch"

\* C9 amended: a batch run ends by emitting the summary (total, success and
\* failure counts, failed-identifier list) when it is a parallel run, or a
\* sequential run with continue_on_error = true or without any failed
\* conversion; a sequential batch run with continue_on_error = false in
\* which a conversion failed ends with that error and without the summary.
C9_SummaryUnlessAborted ==
    (is_batch /\ mainPc = "done" /\ ~SetupFailed) =>
        IF Parallel \/ args.continue_on_error
              \/ \A i \in Tasks : ~IsErr(taskRes[i])
        THEN /\ summary = BatchSummary
             /\ summary.success + summary.failed = total_count
             /\ runResult = "Ok"
        ELSE /\ summary = NoSummary
             /\ IsErr(runResult)

\* C9 witness: a batch run has ended with a summary that lists a failed
\* identifier.
C9_Witness ==
    /\ is_batch
    /\ mainPc = "done"
    /\ summary.kind = "batch"
    /\ summary.failed >= 1
    /\ Len(summary.failed_list) >= 1

\* C10: a single-component run (N = 1) whose conversion fails returns that
\* error instead of ending as a completed conversion, for every setting of
\* continue_on_error.
C10_SingleRunPropagatesError ==
    (total_count = 1 /\ mainPc = "done" /\ IsErr(taskRes[1])) =>
        /\ IsErr(runResult)
        /\ summary.kind # "single"

\* The mesh stage of conversion i has dealt with encoding `ext`: the file is
\* written or its failure is logged.
MeshFile(i, ext) == [name |-> ModelNameOf(i), ext |-> ext]
MeshWarned(i, ext) == \E w \in meshWarn : w.task = i /\ w.ext = ext
MeshHandled(i, ext) == MeshWarned(i, ext) \/ MeshFile(i, ext) \in meshFiles
DownloadExhausted(i) == \E w \in meshWarn : w.task = i /\ w.cause = "download"
Returned(i) == taskPc[i] \in {"returned", "push_failed", "release", "finished"}

\* C11 as stated: a conversion one of whose mesh downloads exhausted its
\* retry budget ends as a failure, counted in the failure counter and listed
\* in the failure list.
C11_MeshDownloadFailureFailsComponent ==
    \A i \in Tasks :
        (DownloadExhausted(i) /\ taskPc[i] = "finished") =>
            /\ taskRes[i] = "Err"
            /\ failed_count > 0
            /\ Occurrences(failed_ids, IdOf(i)) > 0

\* C12: the two mesh encodings are handled independently: once the mesh
\* stage of a conversion is over, the STEP encoding has been attempted
\* (written or logged as failed) whatever happened to the OBJ/WRL encoding,
\* and each encoding's file is written exactly when that encoding did not fail.
C12_EncodingsIndependent ==
    \A i \in Tasks :
        /\ taskPc[i] # "model_step" /\ MeshHandled(i, "wrl") =>
               /\ Returned(i)
               /\ MeshHandled(i, "step")
        /\ \A ext \in {"wrl", "step"} :
               ~(MeshWarned(i, ext) /\ MeshFile(i, ext) \in meshFiles)

\* C12 witness: a conversion has returned with its OBJ/WRL encoding failed
\* and its STEP file written.
C12_Witness ==
    \E i \in Tasks :
        /\ Returned(i)
        /\ MeshWarned(i, "wrl")
        /\ MeshFile(i, "step") \in meshFiles
        /\ MeshFile(i, "wrl") \notin meshFiles

\* The removal from the symbol container has completed: a span matched and
\* every kept line was written back.
InErrors(what) == \E k \in 1..Len(rmErrors) : rmErrors[k] = what
SymbolRemoved ==
    /\ rmPc \in {"footprints", "models", "report", "done"}
    /\ RemoveScan(libBefore, rmId).found
    /\ ~InErrors("symbol")

\* C13 as stated: after the removal of an identifier the container is the
\* container before the removal without the removed span, every kept line
\* with the bytes it had, line terminator and end of file included.
C13_RestPreservedByteForByte ==
    SymbolRemoved => lib = RemoveScan(libBefore, rmId).new_lines

\* No opening line of the container and no footprint or mesh file name
\* contained the identifier given to --remove when the removal started.
NothingMatches ==
    /\ \A k \in 1..Len(libBefore) :
          ~(libBefore[k].sym /\ Contains(libBefore[k].text, rmId))
    /\ \A f \in dirBefore.footprints \cup dirBefore.meshes : ~Contains(f.name, rmId)

\* handle_remove returned because the directory given to --from is missing.
DirectoryMissing == runResult = "ErrOther"

\* C14: in an existing library directory, the removal of an identifier that
\* matches no symbol entry and no footprint or mesh file leaves the container
\* and every file as they were, counts zero removals and returns Ok.
C14_NoMatchNoChange ==
    (rmPc \notin {"off", "start"} /\ ~DirectoryMissing /\ NothingMatches) =>
        /\ lib = libBefore
        /\ fpFiles = dirBefore.footprints
        /\ meshFiles = dirBefore.meshes
        /\ rmCount = 0 /\ rmLocal = 0
        /\ rmPc = "done" => runResult = "Ok"

\* C14 witness: a removal that matched nothing has returned Ok on a library
\* that holds an entry and a footprint of another component.
C14_Witness ==
    /\ rmPc = "done"
    /\ runResult = "Ok"
    /\ NothingMatches
    /\ rmCount = 0
    /\ lib = libBefore
    /\ Len(lib) > Len(EmptyLib)
    /\ fpFiles # {}

\* A class of artifacts has been dealt with: nothing of it matches the
\* identifier any more, or its error is among the collected ones.
SymbolClassDone ==
    \/ InErrors("symbol")
    \/ lib = RemovedContent(libBefore, rmId)
    \/ lib = libBefore /\ ~RemoveScan(libBefore, rmId).found
FootprintClassDone ==
    InErrors("footprints") \/ \A f \in fpFiles : ~Contains(f.name, rmId)
MeshClassDone ==
    InErrors("models") \/ \A f \in meshFiles : ~Contains(f.name, rmId)

EntryCount(content) == Cardinality({k \in 1..Len(content) : content[k].sym})

\* What the removal has actually deleted in each class.
DeletedEntries == EntryCount(libBefore) - EntryCount(lib)
DeletedFootprints == Cardinality(dirBefore.footprints \ fpFiles)
DeletedMeshes == Cardinality(dirBefore.meshes \ meshFiles)

\* C16 as stated: when the removal ends (the container, if rewritten,
\* rewritten without error) the count it reports is the number of entries
\* and files it actually deleted, also when several symbol entries matched
\* and when a deletion failed after other files of the class were deleted.
C16_CountIsWhatWasDeleted ==
    (rmPc \in {"report", "done"} /\ ~DirectoryMissing /\ ~InErrors("symbol")) =>
        rmCount = DeletedEntries + DeletedFootprints + DeletedMeshes

\* C17 as stated: the component name sanitize(title) + "_" + identifier is
\* unique across the conversions of one run: no two conversions that the
\* run has started produce the same name.
C17_NamesUniqueInRun ==
    \A i, j \in Tasks :
        (i # j /\ Attempted(i) /\ Attempted(j)) => NameOf(i) # NameOf(j)

\* C18: for every symbol, the first rectangle in parse order is built filled
\* whatever its source fill flag, and every later rectangle keeps exactly
\* its own source fill flag; one rectangle is built per source rectangle.
C18_FirstRectangleFilled ==
    (conv.kind = "rectangles" /\ conv.done) =>
        /\ Len(conv.output) = Len(conv.input)
        /\ \A k \in 1..Len(conv.input) :
              conv.output[k].fill = (IF k = 1 THEN TRUE ELSE conv.input[k].fill)

\* C18 witness: three rectangles with source flags false, true, false have
\* been converted to filled, own (true), own (false).
C18_Witness ==
    /\ conv.kind = "rectangles"
    /\ conv.done
    /\ Len(conv.input) = 3
    /\ ~conv.input[1].fill /\ conv.input[2].fill /\ ~conv.input[3].fill
    /\ conv.output[1].fill /\ conv.output[2].fill /\ ~conv.output[3].fill

ZeroOrigin == conv.bbox = <<0, 0>>

\* C19 as stated: with bbox origin (0, 0) the normalization returns every
\* point unchanged, in symbol space and in footprint space.
C19_ZeroOriginIsIdentity ==
    (conv.kind = "point" /\ conv.done /\ ZeroOrigin) =>
        conv.output = <<conv.input.x, conv.input.y>>

\* C19, amended: with bbox origin (0, 0) a footprint-space point is returned
\* unchanged, and a symbol-space point (pin or any other shape) is returned
\* with x unchanged and y negated.
C19_ZeroOriginNormalization ==
    (conv.kind = "point" /\ conv.done /\ ZeroOrigin) =>
        conv.output = IF conv.input.space = "footprint"
                      THEN <<conv.input.x, conv.input.y>>
                      ELSE <<conv.input.x, -conv.input.y>>

\* C19 witness: a symbol-space point with y = 3 has been normalized with
\* the zero origin.
C19_Witness ==
    /\ conv.kind = "point"
    /\ conv.done
    /\ ZeroOrigin
    /\ conv.input.space = "symbol"
    /\ conv.input.y = 3
    /\ conv.output = <<conv.input.x, -3>>

\* The path language read token by token. `mode` is "cmd" between commands,
\* "coord" just after an M or L, and "second" after an M or L followed by a
\* lone number (kept in x). With swallow = TRUE the token that follows an M
\* or L is always consumed; with swallow = FALSE an M or L consumes only a
\* coordinate pair, and a token that is no coordinate is read as a token of
\* its own.
ReadCommand(st, tok) ==
    IF tok.t \in {"M", "L"} THEN [st EXCEPT !.mode = "coord"]
    ELSE IF tok.t \in {"Z", "z"}
    THEN [st EXCEPT !.mode = "cmd",
                    !.points = IF @ # <<>> THEN Append(@, @[1]) ELSE @]
    ELSE [st EXCEPT !.mode = "cmd"]

ReadToken(st, tok, point(_, _), swallow) ==
    CASE st.mode = "coord" /\ tok.t = "pair" ->
             [st EXCEPT !.mode = "cmd", !.points = Append(@, point(tok.x, tok.y))]
      [] st.mode = "coord" /\ tok.t = "num" ->
             [st EXCEPT !.mode = "second", !.x = tok.x]
      [] st.mode = "coord" /\ tok.t \notin {"pair", "num"} ->
             IF swallow THEN [st EXCEPT !.mode = "cmd"] ELSE ReadCommand(st, tok)
      [] st.mode = "second" /\ tok.t = "num" ->
             [st EXCEPT !.mode = "cmd", !.points = Append(@, point(st.x, tok.x))]
      [] OTHER -> ReadCommand(st, tok)

RECURSIVE ReadPath(_, _, _)
ReadPath(tokens, point(_, _), swallow) ==
    IF tokens = <<>> THEN [mode |-> "cmd", x |-> 0, points |-> <<>>]
    ELSE ReadToken(ReadPath(SubSeq(tokens, 1, Len(tokens) - 1), point, swallow),
                   tokens[Len(tokens)], point, swallow)

KeptPolylines(points) == IF Len(points) >= 2 THEN <<points>> ELSE <<>>

\* C20 as stated: each M or L consumes the one following coordinate pair
\* and appends its normalized point, each Z or z appends a copy of the first
\* recorded point, any other token is ignored; "M 0,0 L 10,0 L 10,10 Z" with
\* zero bbox origin yields (0,0), (10,0), (10,10), (0,0); a result with fewer
\* than two points is discarded.
C20_PathTokenizerAsStated ==
    (conv.kind = "path" /\ conv.done) =>
        LET point(x, y) == SymbolPoint(x, y, conv.bbox)
        IN /\ conv.output.points = ReadPath(conv.input, point, FALSE).points
           /\ conv.output.polylines = KeptPolylines(conv.output.points)
           /\ (conv.input = ExamplePath /\ ZeroOrigin) =>
                  conv.output.points = << <<0, 0>>, <<10, 0>>, <<10, 10>>, <<0, 0>> >>

\* C20, amended: each M or L consumes the token that follows it, and one
\* more when both are numbers; it appends the normalized point
\* (x - bbox_x, bbox_y - y) when what it consumed is a coordinate pair, and
\* nothing otherwise; each Z or z appends a copy of the first recorded
\* point; any other token is ignored; "M 0,0 L 10,0 L 10,10 Z" with zero
\* bbox origin yields (0,0), (10,0), (10,-10), (0,0); a result with fewer
\* than two points is discarded.
C20_PathTokenizer ==
    (conv.kind = "path" /\ conv.done) =>
        LET point(x, y) == <<x - conv.bbox[1], conv.bbox[2] - y>>
        IN /\ conv.output.points = ReadPath(conv.input, point, TRUE).points
           /\ conv.output.polylines = KeptPolylines(conv.output.points)
           /\ (conv.input = ExamplePath /\ ZeroOrigin) =>
                  conv.output.points = << <<0, 0>>, <<10, 0>>, <<10, -10>>, <<0, 0>> >>

\* C20 witness: the example path has been tokenized with the zero origin
\* and kept as a polyline of four points, the third one with y negated.
C20_Witness ==
    /\ conv.kind = "path"
    /\ conv.done
    /\ ZeroOrigin
    /\ conv.input = ExamplePath
    /\ Len(conv.output.polylines) = 1
    /\ conv.output.points[3] = <<10, -10>>
    /\ conv.output.points[4] = conv.output.points[1]

\* ------------------------------------------------------------- claims, arcs
ArcDone == conv.kind = "arc" /\ conv.done

\* (end - start) x (mid - start): negative when mid is on the side of the
\* chord where the arc drawn in the positive-angle direction lies.
ArcCross(start, mid, end) ==
    (end[1] - start[1]) * (mid[2] - start[2])
        - (end[2] - start[2]) * (mid[1] - start[1])

ArcEndpointsKept ==
    /\ conv.output.start = <<conv.input.start[1] - conv.bbox[1],
                             conv.input.start[2] - conv.bbox[2]>>
    /\ conv.output.end = <<conv.input.end[1] - conv.bbox[1],
                           conv.input.end[2] - conv.bbox[2]>>

ArcMidOnSweepSide ==
    LET cross == ArcCross(conv.output.start, conv.output.mid, conv.output.end)
    IN  IF conv.input.sweep THEN cross < 0 ELSE cross > 0

ArcMidAngleRule ==
    LET mean == (conv.output.start_angle + conv.output.end_angle) \div 2
        diff == conv.output.end_angle - conv.output.start_angle
        disagrees == (conv.input.sweep /\ diff < 0) \/ (~conv.input.sweep /\ diff > 0)
    IN  conv.output.mid_angle = IF disagrees THEN mean + 180 ELSE mean

\* C21 as stated: for every footprint arc given by valid endpoint parameters,
\* of any rotation, the emitted start and end points are the input ones
\* translated by the bbox origin, the midpoint angle is the mean of the start
\* and end angles shifted by 180 degrees exactly when the sign of their
\* difference disagrees with the sweep flag, and the emitted midpoint lies on
\* the side of the arc that the sweep flag selects.
C21_ArcEndpointsAndSide ==
    ArcDone => ArcEndpointsKept /\ ArcMidAngleRule /\ ArcMidOnSweepSide

\* What holds of the arcs: the endpoints and the midpoint angle rule for every
\* arc, the side of the midpoint for the arcs whose rotation is zero.
ArcUnrotatedSide ==
    ArcDone =>
        /\ ArcEndpointsKept
        /\ ArcMidAngleRule
        /\ conv.input.x_rotation = 0 => ArcMidOnSweepSide

\* A quarter arc of a circle turned by half a turn, whose emitted midpoint is
\* on the other side of the chord.
ArcRotatedWrongSide ==
    /\ ArcDone
    /\ conv.input.x_rotation = 180
    /\ ~conv.input.large_arc
    /\ ~ArcMidOnSweepSide

\* ------------------------------------------------ claims, the removal scan
RECURSIVE DepthBefore(_, _)
\* The nesting depth at the start of line k.
DepthBefore(content, k) ==
    IF k = 1 THEN 0
    ELSE DepthBefore(content, k - 1) + content[k - 1].lp - content[k - 1].rp

\* The opening lines of the entries of the container that hold the identifier.
MatchedOpenings(content, lcsc_id) ==
    {k \in 1..Len(content) :
        /\ content[k].sym
        /\ DepthBefore(content, k) = 1
        /\ Contains(content[k].text, lcsc_id)}

\* The lines that belong to the span of a matched entry: from its opening
\* line through the line that holds its matching closing bracket.
InMatchedSpan(content, lcsc_id, j) ==
    \E k \in MatchedOpenings(content, lcsc_id) :
        k <= j /\ j <= SpanEnd(content, k, 0)

RECURSIVE KeptLines(_, _, _)
KeptLines(content, lcsc_id, j) ==
    IF j > Len(content) THEN <<>>
    ELSE (IF InMatchedSpan(content, lcsc_id, j) THEN <<>> ELSE <<content[j]>>)
             \o KeptLines(content, lcsc_id, j + 1)

\* Every closing bracket closes an open one and none is left open.
Balanced(content) ==
    /\ \A k \in 1..Len(content) :
          DepthBefore(content, k) + content[k].lp - content[k].rp >= 0
    /\ Len(content) > 0 =>
          DepthBefore(content, Len(content)) + content[Len(content)].lp
              - content[Len(content)].rp = 0

Scanned == rmPc = "scanned"

HasShape(content, shapes) ==
    \E entries \in UNION {[1..n -> ScanEntries] : n \in 1..MaxEntries} :
        /\ content = <<HeaderLine>> \o Flatten(entries) \o <<FooterLine>>
        /\ \A k \in 1..Len(entries) :
              \E id \in {C1, C2}, shape \in shapes :
                  entries[k] = ShapedEntry(ComponentName(RemoteTitle(id), id), shape)

\* C22 as stated: the scan keeps exactly the lines outside the span of the
\* matched entries, whatever the layout of the entries (sub-entries whose
\* opening lines hold the identifier, opening lines with further brackets),
\* and what it keeps of a balanced container is balanced.
C22_ExactSpanRemoved ==
    Scanned =>
        /\ rmNew = KeptLines(libBefore, rmId, 1)
        /\ Balanced(libBefore) => Balanced(rmNew)

\* What holds of the scan: the exact span is removed from a container whose
\* entries are laid out as opening line, body lines, closing line, with any
\* further brackets of the opening line closed on it.
ScanExactOnPlainEntries ==
    (Scanned /\ HasShape(libBefore, {"flat", "attrs"})) =>
        /\ rmNew = KeptLines(libBefore, rmId, 1)
        /\ Balanced(rmNew)

\* An entry with a sub-entry is scanned and its closing line is kept.
ScanLeavesClosingLine ==
    /\ Scanned
    /\ HasShape(libBefore, {"unit"})
    /\ rmLocal = 1
    /\ ~Balanced(rmNew)

\* ------------------------------------------------ claims, the admission gate
\* The positions at which a task holds its permit: from the acquisition to
\* the end of its future.
HoldingPcs ==
    {"fetch", "symbol", "lib_lock", "lib_write", "footprint", "model_obj",
     "model_step", "returned", "push_failed", "release"}
Converting(i) ==
    taskPc[i] \in {"fetch", "symbol", "lib_lock", "lib_write", "footprint",
                   "model_obj", "model_step"}
Holders == {i \in Tasks : taskPc[i] \in HoldingPcs}
Recorded == {i \in Tasks : taskPc[i] \in {"push_failed", "release", "finished"}}

\* C23: in the parallel mode the permits that are out are exactly those of
\* the tasks between their acquisition and the end of their future: a task
\* that converts, or whose outcome is not yet recorded, holds one, and the
\* tasks whose permit is back have their outcome in the counters.
C23_PermitHeldUntilRecorded ==
    (Parallel /\ (mainPc \in {"spawn", "join", "report"} \/ runResult = "Ok")) =>
        /\ permits = args.parallel - Cardinality(Holders)
        /\ \A i \in Tasks : Converting(i) => i \in Holders
        /\ success_count + failed_count = Cardinality(Recorded)
        /\ \A i \in Tasks :
              taskPc[i] \in {"release", "finished"} =>
                  \/ taskRes[i] = "Ok" /\ success_count > 0
                  \/ /\ taskRes[i] = "Err"
                     /\ failed_count > 0
                     /\ Occurrences(failed_ids, IdOf(i)) > 0

\* C23 witness: every permit is out, one of them held by a task whose failure
\* is recorded and whose future has not ended, while another task waits.
C23_Witness ==
    /\ Parallel
    /\ permits = 0
    /\ \E i, j, k \in Tasks :
          /\ taskPc[i] = "release" /\ taskRes[i] = "Err"
          /\ Converting(j)
          /\ taskPc[k] = "acquire"

\* ------------------------------------------------- claims, the retry loop
\* The attempts 1..n, each but the last followed by a wait of 500 ms times
\* its number.
RECURSIVE AttemptsWithWaits(_)
AttemptsWithWaits(n) ==
    IF n = 0 THEN <<>>
    ELSE IF n = 1 THEN <<Get(1)>>
    ELSE AttemptsWithWaits(n - 1) \o <<Sleep(500 * (n - 1)), Get(n)>>

\* The first attempt that meets the bytes, MAX_RETRIES + 1 when none does.
FirstOk(script) ==
    IF \E k \in 1..MAX_RETRIES : script[k] = "ok"
    THEN CHOOSE k \in 1..MAX_RETRIES :
             script[k] = "ok" /\ \A j \in 1..(k - 1) : script[j] # "ok"
    ELSE MAX_RETRIES + 1

Downloading == conv.kind = "download"

\* C24: download_with_retry makes at most 3 attempts, returns the bytes at the
\* first attempt that succeeds and makes no attempt after it, returns an error
\* exactly when all 3 attempts fail, and waits 500 ms times k between the
\* failed attempt k and the attempt k + 1, with no wait after the third.
C24_RetryLoop ==
    Downloading =>
        LET out == conv.output
            first == FirstOk(conv.input)
        IN  /\ out.attempt <= 3
            /\ ~conv.done =>
                  /\ out.attempt < first
                  /\ out.log = IF out.attempt = 0 THEN <<>>
                               ELSE Append(AttemptsWithWaits(out.attempt),
                                           Sleep(500 * out.attempt))
            /\ conv.done =>
                  /\ out.attempt = IF first <= 3 THEN first ELSE 3
                  /\ out.log = AttemptsWithWaits(out.attempt)
                  /\ out.result = "Ok" <=> first <= 3
                  /\ out.result # "Ok" <=> \A k \in 1..3 : conv.input[k] # "ok"
                  /\ out.result # "none"

\* C24 witness: the error is returned after three attempts, with waits of
\* 500 ms and 1000 ms between them and none after the third.
C24_Witness ==
    /\ Downloading
    /\ conv.done
    /\ conv.output.result = "InvalidData"
    /\ conv.output.log = <<Get(1), Sleep(500), Get(2), Sleep(1000), Get(3)>>

\* --------------------------------------- claims, the steps of one component
\* The step from which each step of a conversion is entered, given the
\* conversions selected.
StepBeforeFootprint == IF doSymbol THEN "lib_write" ELSE "fetch"
StepBeforeModel == IF doFootprint THEN "footprint" ELSE StepBeforeFootprint

EntersStep(i, step) == taskPc[i] # step /\ taskPc'[i] = step

\* What one step of the run may do to the conversion i.
StepOrder(i) ==
    (taskPc'[i] # taskPc[i] \/ taskRes'[i] # taskRes[i]) =>
        /\ EntersStep(i, "fetch") => taskPc[i] \in {"unspawned", "acquire"}
        /\ EntersStep(i, "symbol") => doSymbol /\ taskPc[i] = "fetch"
        /\ EntersStep(i, "lib_lock") => taskPc[i] = "symbol"
        /\ EntersStep(i, "lib_write") => taskPc[i] = "lib_lock"
        /\ EntersStep(i, "footprint") =>
               doFootprint /\ taskPc[i] = StepBeforeFootprint
        /\ EntersStep(i, "model_obj") => doModel /\ taskPc[i] = StepBeforeModel
        /\ EntersStep(i, "model_step") => taskPc[i] = "model_obj"
        /\ (taskRes[i] = "none" /\ taskRes'[i] # "none") => taskPc'[i] = "returned"
        /\ (taskRes[i] = "none" /\ IsErr(taskRes'[i])) =>
               /\ fpFiles' = fpFiles
               /\ meshFiles' = meshFiles
        /\ (taskRes[i] = "none" /\ taskRes'[i] = "ErrDuplicate") => lib' = lib

Stalled == {i \in Tasks : taskPc[i] = "stalled"}
GateOpen == mainPc \in {"spawn", "join"}

\* C26: a stalled conversion holds exactly one permit (the permits that are
\* out are those of the stalled tasks and of the tasks between acquisition
\* and end), and from some point on, if fewer than --parallel conversions are
\* stalled, every other conversion has been attempted and has reached its
\* outcome.
C26_StallHoldsOneUnit ==
    /\ [](GateOpen => permits = args.parallel - Cardinality(Holders \cup Stalled))
    /\ <>[](GateOpen =>
              (Cardinality(Stalled) < args.parallel =>
                  \A i \in Tasks \ Stalled :
                      /\ taskPc[i] = "finished"
                      /\ taskRes[i] \in {"Ok", "Err"}))

\* C26 witness: one conversion of three is stalled with --parallel 2, and the
\* two others have reached their outcome through the remaining permit.
C26_Witness ==
    /\ args.parallel = 2
    /\ Cardinality(Tasks) = 3
    /\ Cardinality(Stalled) = 1
    /\ permits = 1
    /\ \A i \in Tasks \ Stalled : taskPc[i] = "finished"

AllJoined == \A i \in Tasks : taskPc[i] = "finished"

\* C27: in the parallel mode, every conversion that starts returning, each of
\* the identifiers is eventually spawned, acquires a permit and is attempted,
\* and the run ends with every task joined and the batch summary printed
\* (unless the output directories could not be created, before any task).
C27_ParallelBatchTerminates ==
    <>[](\/ runResult = "ErrIo"
         \/ /\ mainPc = "done"
            /\ runResult = "Ok"
            /\ AllJoined
            /\ \A i \in Tasks : taskRes[i] \in {"Ok", "Err"}
            /\ permits = args.parallel
            /\ summary.kind = "batch"
            /\ summary.total = total_count
            /\ summary.success + summary.failed = total_count)

\* C27 witness: a batch of more identifiers than permits has ended, with
\* every task joined, successes and failures, and the summary printed.
C27_Witness ==
    /\ mainPc = "done"
    /\ Parallel
    /\ total_count > args.parallel
    /\ AllJoined
    /\ summary.kind = "batch"
    /\ summary.success > 0
    /\ summary.failed > 0

\* ------------------------------------------- claims, what a removal spares
\* The entry keyed `key` in the container, line terminators aside.
EntryOf(content, key) ==
    LET k == KeyIndex(content, key)
    IN  IF k = 0 THEN <<>>
        ELSE [j \in 1..(SpanEnd(content, k, 0) - k + 1) |->
                 WrittenLine(content[k + j - 1])]

RemovalOver == rmPc = "done" /\ runResult = "Ok" /\ rmErrors = <<>>

\* The artifacts that the component `id` had before the removal are there
\* after it: its entry of the library, its footprint file, its mesh files.
Spared(id) ==
    LET name == ComponentName(RemoteTitle(id), id)
        model == ComponentName(RemoteModelTitle(id), id)
    IN  /\ EntryOf(lib, name) = EntryOf(libBefore, name)
        /\ \A f \in dirBefore.footprints : f.name = name => f \in fpFiles
        /\ \A f \in dirBefore.meshes : f.name = model => f \in meshFiles

HadArtifacts(id) ==
    KeyIndex(libBefore, ComponentName(RemoteTitle(id), id)) # 0

\* C28 as stated: the removal of an identifier leaves the symbol entry, the
\* footprint file and the mesh files of every component with another
\* identifier in place and unchanged, also when the other identifier
\* contains the removed one.
C28_OtherComponentsSpared ==
    RemovalOver => \A id \in {C1, C12, C2} \ {rmId} : Spared(id)

\* What holds of the removal: the components whose identifier does not
\* contain the removed one are spared.
RemovalSparesUnrelated ==
    RemovalOver =>
        \A id \in {C1, C12, C2} \ {rmId} : ~Contains(id, rmId) => Spared(id)

\* The removal of C1 is over and the artifacts of C12 are gone.
RemovalTookSuperstring ==
    /\ RemovalOver
    /\ rmId = C1
    /\ HadArtifacts(C12)
    /\ KeyIndex(lib, ComponentName(RemoteTitle(C12), C12)) = 0
    /\ \A f \in fpFiles : f.name # ComponentName(RemoteTitle(C12), C12)
    /\ meshFiles = {}

\* ----------------------------------- claims, the 3D model of a footprint
ConversionOk(i) ==
    taskRes[i] = "Ok" /\ taskPc[i] \in {"returned", "release", "finished"}

WroteFootprintWithModel(i) ==
    /\ FootprintFile(i) \in fpFiles
    /\ FootprintFile(i).model # <<>>

StepFileOf(i) == [name |-> FootprintFile(i).model, ext |-> "step"]

\* C29 as stated: when a conversion that ended successfully has written a
\* footprint with a 3D-model reference, the STEP file that the reference
\* names has been written.
C29_ReferencedStepWritten ==
    \A i \in Tasks :
        (ConversionOk(i) /\ WroteFootprintWithModel(i)) => StepFileOf(i) \in meshFiles

\* What holds of the reference: the STEP file it names is there unless its
\* download, export or write failed and was logged.
ReferencedStepWrittenOrWarned ==
    \A i \in Tasks :
        (ConversionOk(i) /\ WroteFootprintWithModel(i)) =>
            StepFileOf(i) \in meshFiles \/ MeshWarned(i, "step")

\* A successful conversion whose footprint names a STEP file that is not
\* there, the download having exhausted its attempts.
ReferenceWithoutStep ==
    \E i \in Tasks :
        /\ ConversionOk(i)
        /\ WroteFootprintWithModel(i)
        /\ StepFileOf(i) \notin meshFiles
        /\ \E w \in meshWarn : w.task = i /\ w.ext = "step" /\ w.cause = "download"

====
